---- MODULE Spec2Model ----
(***************************************************************************)
(* Recipe runner (recipes/runner.py) together with the artifact-producing  *)
(* collaborators it dispatches to (plugins/preset_ksp.py,                  *)
(* converters/converters.py) and the manifest / sidecar writer             *)
(* (metadata/manifest.py), as one state machine over a small storage.      *)
(***************************************************************************)
EXTENDS Integers, Sequences, FiniteSets, TLC

\* Longest recipe (number of steps) explored.
MaxSteps == 2

(***************************************************************************)
(* Values of a parsed JSON/YAML document.  Numbers are fixed-point, in     *)
(* millionths, so that the mm -> m division by 1000 and the 3-decimal /    *)
(* 2-decimal formatting of file names are exact integer computations.      *)
(***************************************************************************)
Missing == [t |-> "missing"]
Null == [t |-> "null"]
RECURSIVE Join(_)
\* "/".join(components)
Join(p) ==
  IF Len(p) = 0 THEN ""
  ELSE IF Len(p) = 1 THEN p[1]
  ELSE p[1] \o "/" \o Join(Tail(p))

\* a string; p is the same string split at "/" (its reading as a path)
PathStr(p) == [t |-> "str", s |-> Join(p), p |-> p]
Str(s) == PathStr(<<s>>)
IntV(n) == [t |-> "int", u |-> n * 1000000]
FloatV(u) == [t |-> "float", u |-> u]
BoolV(b) == [t |-> "bool", u |-> IF b THEN 1000000 ELSE 0]
ListV(l) == [t |-> "list", l |-> l]

\* type(x).__name__
TypeName(v) ==
  CASE v.t = "null" -> "NoneType"
    [] v.t = "missing" -> "NoneType"
    [] v.t = "str" -> "str"
    [] v.t = "int" -> "int"
    [] v.t = "float" -> "float"
    [] v.t = "bool" -> "bool"
    [] v.t = "list" -> "list"

\* Python truthiness, as used by `x or default`
Truthy(v) ==
  CASE v.t \in {"null", "missing"} -> FALSE
    [] v.t = "str" -> v.s # ""
    [] v.t \in {"int", "float", "bool"} -> v.u # 0
    [] v.t = "list" -> v.l # <<>>

\* isinstance(x, (int, float)): bool is a subclass of int
IsNumber(v) == v.t \in {"int", "float", "bool"}

\* Outcome of an expression that may raise
Ok(v) == [ok |-> TRUE, v |-> v]
Err(e) == [ok |-> FALSE, err |-> e]

\* Decimal numerals int() can parse in this model
Numerals == 0 .. 200

\* str(x) for the values an action key can hold
PyStr(v) ==
  CASE v.t \in {"null", "missing"} -> "None"
    [] v.t = "str" -> v.s
    [] v.t = "int" -> ToString(v.u \div 1000000)
    [] v.t = "bool" -> IF v.u # 0 THEN "True" ELSE "False"
    [] v.t = "float" -> ToString(v.u \div 1000000) \o "." \o ToString((v.u % 1000000) \div 100000)
    [] v.t = "list" -> "[...]"

\* int(x)
PyInt(v) ==
  CASE v.t \in {"int", "float", "bool"} -> Ok(v.u \div 1000000)
    [] v.t = "str" ->
         IF \E n \in Numerals : ToString(n) = v.s
         THEN Ok(CHOOSE n \in Numerals : ToString(n) = v.s)
         ELSE Err("invalid literal for int() with base 10: '" \o v.s \o "'")
    [] OTHER -> Err("int() argument must be a string, a bytes-like object or a real number, not '"
                    \o TypeName(v) \o "'")

\* _val_float
ValFloat(x, name) ==
  IF ~IsNumber(x) THEN Err(name \o " must be a number") ELSE Ok(x.u)

\* _val_list_of_numbers
ValListOfNumbers(xs, name) ==
  IF xs.t # "list" \/ \E i \in 1 .. Len(xs.l) : ~IsNumber(xs.l[i])
  THEN Err(name \o " must be a list of numbers")
  ELSE Ok([i \in 1 .. Len(xs.l) |-> xs.l[i].u])

(***************************************************************************)
(* Paths are sequences of components; Path() drops "." and empty           *)
(* components, str(Path) is the normalised sequence.                       *)
(***************************************************************************)
IsRealComponent(c) == c # "." /\ c # ""

PathOf(v) ==
  IF v.t = "str" THEN Ok(SelectSeq(v.p, IsRealComponent))
  ELSE Err("expected str, bytes or os.PathLike object, not " \o TypeName(v))

Parent(p) == IF Len(p) = 0 THEN p ELSE SubSeq(p, 1, Len(p) - 1)

\* str(output_path) + suffix
WithSuffix(p, suffix) ==
  IF Len(p) = 0 THEN <<"." \o suffix>>
  ELSE [p EXCEPT ![Len(p)] = @ \o suffix]

\* variant of _sidecar_paths that gives both sidecars the JSON name
SidecarPathsBothJson(output_path) ==
  <<WithSuffix(output_path, ".ams.json"), WithSuffix(output_path, ".ams.json")>>

\* _sidecar_paths
SidecarPaths(output_path) ==
  <<WithSuffix(output_path, ".ams.json"), WithSuffix(output_path, ".ams.yaml")>>

(***************************************************************************)
(* Scale profiles (scale.py)                                               *)
(***************************************************************************)
\* min_value, max_value and step are in millionths of the profile's unit
ALL_PROFILES ==
  [small_mm |-> [id |-> "small_mm", unit |-> "mm",
                 min_value |-> 1000000, max_value |-> 1000000000, step |-> 100000],
   normal_m |-> [id |-> "normal_m", unit |-> "m",
                 min_value |-> 1000000, max_value |-> 10000000, step |-> 10000],
   large_scene |-> [id |-> "large_scene", unit |-> "m",
                    min_value |-> 10000000, max_value |-> 1000000000, step |-> 100000]]

NORMAL_M == ALL_PROFILES["normal_m"]

DEFAULT_PROFILE_ID == NORMAL_M.id

\* the module-level dict ALL_PROFILES as the program finds it when it looks a
\* profile up
VARIABLE registry

\* the settings key "scale/profile_id" when nothing was ever stored under it
Unset == "<unset>"

\* s.value("scale/profile_id", DEFAULT_PROFILE_ID, type=str)
SettingsValue(stored) == IF stored = Unset THEN DEFAULT_PROFILE_ID ELSE stored

\* variant that answers with the first registered profile for an unknown id
GetCurrentProfileFallsBackToFirst(stored) ==
  LET pid == SettingsValue(stored)
  IN IF pid \in DOMAIN registry THEN registry[pid] ELSE ALL_PROFILES["small_mm"]

\* get_current_profile: the stored id, NORMAL_M when it is not registered
GetCurrentProfile(stored) ==
  LET pid == SettingsValue(stored)
  IN IF pid \in DOMAIN registry THEN registry[pid] ELSE NORMAL_M

\* variant that never looks at the recipe
GetScaleProfileIgnoresRecipe(recipe, stored) ==
  GetCurrentProfile(stored).id

\* _get_scale_profile
GetScaleProfile(recipe, stored) ==
  LET pid == recipe.scale_profile
  IN IF pid.t = "str" /\ pid.s \in DOMAIN registry THEN pid.s
     ELSE GetCurrentProfile(stored).id

(***************************************************************************)
(* Step descriptors: a step is either a keyed record (dict) or some other  *)
(* value.  kv gives every key's value, Missing for a key that is absent.   *)
(***************************************************************************)
Keys ==
  {"action", "output", "diameter", "diameter_unit", "length_factor", "segments",
   "output_dir", "diameters", "diameters_unit", "length_factors", "input", "format"}

NoKeys == [k \in Keys |-> Missing]

Dict(kv) == [isdict |-> TRUE, kv |-> kv]
NotADict == [isdict |-> FALSE, kv |-> NoKeys]

\* step.get(k) and step.get(k, default)
Get(step, k) == IF step.kv[k].t = "missing" THEN Null ELSE step.kv[k]
GetD(step, k, default) == IF step.kv[k].t = "missing" THEN default ELSE step.kv[k]

\* step[k]
Item(step, k) ==
  IF step.kv[k].t = "missing" THEN Err("'" \o k \o "'") ELSE Ok(step.kv[k])

\* Path(step[k])
ItemPath(step, k) ==
  IF Item(step, k).ok THEN PathOf(Item(step, k).v) ELSE Item(step, k)

KnownActions == {"create_tank", "create_tank_family", "convert_model_to_glb", "convert_image"}

\* the branch of the if/elif chain that `action` selects
IsAction(step, name) == step.kv["action"].t = "str" /\ step.kv["action"].s = name

IsKnown(step) == \E a \in KnownActions : IsAction(step, a)

(***************************************************************************)
(* Number formatting of the family file names                              *)
(***************************************************************************)
RECURSIVE Pow10(_)
Pow10(n) == IF n = 0 THEN 1 ELSE 10 * Pow10(n - 1)

RECURSIVE ZeroPad(_, _)
\* the decimal numeral of n, left-padded with zeros to `width` digits
ZeroPad(n, width) ==
  IF width <= 1 THEN ToString(n)
  ELSE IF n < Pow10(width - 1) THEN "0" \o ZeroPad(n, width - 1)
  ELSE ToString(n)

\* f"{x:.{decimals}f}" of the non-negative fixed-point number u (millionths)
FormatFixed(u, decimals) ==
  LET unit == Pow10(6 - decimals)
      q == u \div unit
      r == u % unit
      rounded == IF 2 * r > unit \/ (2 * r = unit /\ q % 2 = 1) THEN q + 1 ELSE q
  IN ToString(rounded \div Pow10(decimals)) \o "." \o ZeroPad(rounded % Pow10(decimals), decimals)

\* f"tank_{d:.3f}m_L{k:.2f}x.glb".replace("..", "."); the two numerals
\* never put two dots next to each other, so the replace changes nothing
VariantName(d, k) ==
  "tank_" \o FormatFixed(d, 3) \o "m_L" \o FormatFixed(k, 2) \o "x.glb"

(***************************************************************************)
(* Parameter extraction of run_recipe_file, one operator per branch.  Each *)
(* evaluates the statements of its branch in order up to the collaborator   *)
(* call; the first statement that raises decides the error.                 *)
(***************************************************************************)
\* variant that converts by the profile's unit whatever the step says
IsMillimetresByProfileOnly(step, k, profile) ==
  profile.unit = "mm"

\* `step.get(k) or profile.unit` compared with "mm"
IsMillimetres(step, k, profile) ==
  LET unit == IF Truthy(Get(step, k)) THEN Get(step, k) ELSE Str(profile.unit)
  IN unit.t = "str" /\ unit.s = "mm"

\* lines 81-89: the arguments of create_tank_glb
PrepareCreateTank(step, profile) ==
  LET out == ItemPath(step, "output")
      diameter == ValFloat(Get(step, "diameter"), "diameter")
      length_factor == ValFloat(GetD(step, "length_factor", FloatV(1000000)), "length_factor")
      segments == PyInt(GetD(step, "segments", IntV(128)))
  IN IF ~out.ok THEN out
     ELSE IF ~diameter.ok THEN diameter
     ELSE IF ~length_factor.ok THEN length_factor
     ELSE IF ~segments.ok THEN segments
     ELSE Ok([fn |-> "create_tank_glb",
              out |-> out.v,
              diameter_m |-> IF IsMillimetres(step, "diameter_unit", profile)
                             THEN diameter.v \div 1000 ELSE diameter.v,
              body_length_factor |-> length_factor.v,
              segments |-> segments.v])

\* lines 95-101: the arguments of create_tank_variants_glb
PrepareCreateTankFamily(step, profile) ==
  LET out_dir == ItemPath(step, "output_dir")
      diameters == ValListOfNumbers(Get(step, "diameters"), "diameters")
      length_factors == ValListOfNumbers(Get(step, "length_factors"), "length_factors")
      segments == PyInt(GetD(step, "segments", IntV(128)))
  IN IF ~out_dir.ok THEN out_dir
     ELSE IF ~diameters.ok THEN diameters
     ELSE IF ~length_factors.ok THEN length_factors
     ELSE IF ~segments.ok THEN segments
     ELSE Ok([fn |-> "create_tank_variants_glb",
              output_dir |-> out_dir.v,
              diameters_m |-> IF IsMillimetres(step, "diameters_unit", profile)
                              THEN [i \in DOMAIN diameters.v |-> diameters.v[i] \div 1000]
                              ELSE diameters.v,
              body_length_factors |-> length_factors.v,
              segments |-> segments.v])

\* lines 106-107: the arguments of convert_model_to_glb
PrepareConvertModel(step) ==
  LET inp == ItemPath(step, "input")
      out == ItemPath(step, "output")
  IN IF ~inp.ok THEN inp
     ELSE IF ~out.ok THEN out
     ELSE Ok([fn |-> "convert_model_to_glb", inp |-> inp.v, out |-> out.v])

\* lines 112-114: the arguments of convert_image; format is passed as found
PrepareConvertImage(step) ==
  LET inp == ItemPath(step, "input")
      out == ItemPath(step, "output")
  IN IF ~inp.ok THEN inp
     ELSE IF ~out.ok THEN out
     ELSE Ok([fn |-> "convert_image", inp |-> inp.v, out |-> out.v,
              format |-> Get(step, "format")])

\* the try-body of a step with a recognised action, up to its collaborator call
Prepare(step, profile) ==
  CASE IsAction(step, "create_tank") -> PrepareCreateTank(step, profile)
    [] IsAction(step, "create_tank_family") -> PrepareCreateTankFamily(step, profile)
    [] IsAction(step, "convert_model_to_glb") -> PrepareConvertModel(step)
    [] IsAction(step, "convert_image") -> PrepareConvertImage(step)

(***************************************************************************)
(* Collaborators.  Every artifact is produced by the same sequence:        *)
(* write the artifact, build the manifest from what is on storage, write   *)
(* the JSON sidecar, write the YAML sidecar.  A job describes one artifact.*)
(***************************************************************************)
NoPath == <<"">>

\* the create_tank_glb call for one artifact
TankJob(path, d, k, segments) ==
  [out |-> path, inp |-> NoPath, mesh |-> TRUE,
   action |-> "create_tank", source_type |-> "generated",
   scale_profile_id |-> "normal_m", unit |-> "m",
   params |-> [diameter_m |-> d, body_length_factor |-> k, segments |-> segments]]

RECURSIVE VariantJobs(_, _, _, _, _, _)
\* create_tank_variants_glb: for d in diameters_m: for k in body_length_factors
VariantJobs(dir, ds, ks, segments, i, j) ==
  IF i > Len(ds) THEN <<>>
  ELSE IF j > Len(ks) THEN VariantJobs(dir, ds, ks, segments, i + 1, 1)
  ELSE <<TankJob(Append(dir, VariantName(ds[i], ks[j])), ds[i], ks[j], segments)>>
       \o VariantJobs(dir, ds, ks, segments, i, j + 1)

\* the artifacts a collaborator call produces, in order
Jobs(args) ==
  CASE args.fn = "create_tank_glb" ->
         <<TankJob(args.out, args.diameter_m, args.body_length_factor, args.segments)>>
    [] args.fn = "create_tank_variants_glb" ->
         VariantJobs(args.output_dir, args.diameters_m, args.body_length_factors,
                     args.segments, 1, 1)
    [] args.fn = "convert_model_to_glb" ->
         <<[out |-> args.out, inp |-> args.inp, mesh |-> TRUE,
            action |-> "convert_model_to_glb", source_type |-> "converted",
            scale_profile_id |-> "normal_m", unit |-> "m",
            params |-> [input |-> args.inp]]>>
    [] args.fn = "convert_image" ->
         <<[out |-> args.out, inp |-> args.inp, mesh |-> FALSE,
            action |-> "convert_image", source_type |-> "converted",
            scale_profile_id |-> "normal_m", unit |-> "m",
            params |-> [input |-> args.inp, format |-> args.format]]>>

\* directories the call creates before its first artifact (mkdir parents=True)
DirsOf(args) ==
  IF args.fn = "create_tank_variants_glb" THEN {args.output_dir} ELSE {Parent(args.out)}

(***************************************************************************)
(* Storage contents                                                        *)
(***************************************************************************)
\* bytes put on storage by the n-th write of a run; "partial" is what an
\* interrupted write leaves behind
Bytes(kind, n) == [kind |-> kind, id |-> n]

SourceBytes == Bytes("source", 0)

\* sha256_file: the digest stands for the bytes it was computed from
Sha256File(storage, path) == [sha256_of |-> storage[path]]

\* out.stat().st_size: the size stands for the bytes it was measured on
FileSize(storage, path) == [size_of |-> storage[path]]

\* the AMSManifest that create_for_mesh / create_for_file construct from
\* what they have read
AMSManifest(job, file_sha, file_size, input_sha) ==
  [output |-> [file_path |-> job.out, file_size |-> file_size, file_sha256 |-> file_sha],
   source |-> [type |-> job.source_type,
               input_path |-> job.inp,
               input_sha256 |-> input_sha],
   scale |-> [profile_id |-> job.scale_profile_id, unit |-> job.unit],
   has_geometry |-> job.mesh,
   conversion |-> [action |-> job.action, parameters |-> job.params],
   audit |-> Null]

\* sha256_file(source_input_path) if source_input_path else None
InputSha256(job, storage) ==
  IF job.inp # NoPath THEN Sha256File(storage, job.inp) ELSE [sha256_of |-> Null]

\* create_for_mesh / create_for_file: the record built from what is on storage
Manifest(job, storage) ==
  AMSManifest(job, Sha256File(storage, job.out), FileSize(storage, job.out),
              InputSha256(job, storage))

\* the two encodings written by write_sidecars
JsonSidecar(manifest) == [kind |-> "json", doc |-> manifest]
YamlSidecar(manifest) == [kind |-> "yaml", doc |-> manifest]

(***************************************************************************)
(* StepResult values built by run_recipe_file                              *)
(***************************************************************************)
StepResult(index, action, ok, message, outputs) ==
  [index |-> index, action |-> action, ok |-> ok, message |-> message, outputs |-> outputs]

\* variant of line 75 that tags the step with str(None) instead of the placeholder
InvalidResultUntagged(index) == StepResult(index, "None", FALSE, "Step must be a dict", <<>>)

\* line 75
InvalidResult(index) == StepResult(index, "<invalid>", FALSE, "Step must be a dict", <<>>)

\* variant of line 119 that puts the action into the message
UnknownResultNamesAction(index, action) ==
  StepResult(index, PyStr(action), FALSE, "Unknown action: " \o PyStr(action), <<>>)

\* line 119
UnknownResult(index, action) == StepResult(index, PyStr(action), FALSE, "Unknown action", <<>>)

\* variant of lines 120-121 that reports what the step wrote before it raised
FailedResultKeepsWritten(index, action, message, written) ==
  StepResult(index, PyStr(action), FALSE, message, written)

\* lines 120-121; `written` are the artifacts the step had completed when it raised
FailedResult(index, action, message, written) ==
  StepResult(index, PyStr(action), FALSE, message, <<>>)

\* lines 93, 104, 110, 117
OkMessage(fn, created) ==
  IF fn = "create_tank_variants_glb" THEN "created " \o ToString(Len(created)) ELSE "ok"

OkResult(index, action, fn, created) ==
  StepResult(index, action.s, TRUE, OkMessage(fn, created), created)

(***************************************************************************)
(* Recipes explored                                                        *)
(***************************************************************************)
InPath == <<"in", "src.dat">>
GonePath == <<"in", "gone.dat">>
TankPath == <<"out", "t.glb">>
ImagePath == <<"out", "i.jpg">>
FamilyDir == <<"fam">>

With(step, k, v) == [step EXCEPT !.kv[k] = v]

TankStep ==
  Dict([NoKeys EXCEPT !["action"] = Str("create_tank"),
                      !["output"] = PathStr(<<".", "out", "t.glb">>),
                      !["diameter"] = IntV(2)])

FamilyStep ==
  Dict([NoKeys EXCEPT !["action"] = Str("create_tank_family"),
                      !["output_dir"] = PathStr(FamilyDir),
                      !["diameters"] = ListV(<<FloatV(1250000)>>),
                      !["length_factors"] = ListV(<<IntV(1), IntV(2)>>)])

ModelStep ==
  Dict([NoKeys EXCEPT !["action"] = Str("convert_model_to_glb"),
                      !["input"] = PathStr(InPath),
                      !["output"] = PathStr(TankPath)])

ImageStep ==
  Dict([NoKeys EXCEPT !["action"] = Str("convert_image"),
                      !["input"] = PathStr(InPath),
                      !["output"] = PathStr(ImagePath),
                      !["format"] = Str("JPEG")])

\* steps that are rejected without a collaborator
RejectedSteps ==
  {NotADict,
   Dict(NoKeys),
   Dict([NoKeys EXCEPT !["action"] = Str("bogus")]),
   Dict([NoKeys EXCEPT !["action"] = IntV(7)])}

\* steps with a recognised action and a missing or ill-typed parameter
IllTypedSteps ==
  {With(TankStep, "output", Missing),
   With(TankStep, "diameter", Str("wide")),
   With(TankStep, "segments", Str("many")),
   With(TankStep, "segments", FloatV(2500000)),
   With(FamilyStep, "diameters", ListV(<<IntV(1), Str("x")>>)),
   With(FamilyStep, "length_factors", Missing),
   With(ModelStep, "input", Missing),
   With(ModelStep, "input", PathStr(GonePath)),
   With(ImageStep, "output", IntV(5)),
   With(ImageStep, "format", IntV(5))}

\* steps whose parameters are all present and well typed
WellTypedSteps ==
  {TankStep,
   FamilyStep,
   With(FamilyStep, "diameters", ListV(<<>>)),
   ModelStep,
   ImageStep}

StepUniverse == RejectedSteps \cup IllTypedSteps \cup WellTypedSteps

RECURSIVE SeqsUpTo(_, _)
SeqsUpTo(S, n) ==
  IF n = 0 THEN {<<>>}
  ELSE LET shorter == SeqsUpTo(S, n - 1)
       IN shorter \cup {Append(q, x) : q \in {r \in shorter : Len(r) = n - 1}, x \in S}

\* values of the recipe's scale_profile key in the runs explored
ScaleProfileValues == {Missing}

\* the parsed recipe file; top tells what _load_recipe_file finds
Documents ==
  {[top |-> t, scale_profile |-> Missing, steps |-> Missing] : t \in {"unparsable", "not_a_dict"}}
  \cup {[top |-> "dict", scale_profile |-> sp, steps |-> st] :
          sp \in ScaleProfileValues, st \in {Missing, Null, Str("later")}}
  \cup {[top |-> "dict", scale_profile |-> sp, steps |-> ListV(l)] :
          sp \in ScaleProfileValues, l \in SeqsUpTo(StepUniverse, MaxSteps)}

(***************************************************************************)
(* State                                                                   *)
(***************************************************************************)
VARIABLES
  doc,       \* the recipe document being run
  stored,    \* settings value "scale/profile_id"
  fs,        \* storage: path -> file content
  dirs,      \* directories created on storage
  pc,        \* "start", "loop", "call", "done", "raised"
  idx,       \* loop index of run_recipe_file
  profile,   \* resolved ScaleProfile
  results,   \* list of StepResult
  call,      \* frame of the collaborator call in progress
  raised,    \* message of the error run_recipe_file raised, "" if none
  invoked,   \* history: collaborator invocations, in order
  thrown,    \* history: errors raised by collaborators, in order
  wlog,      \* history: file writes, in order
  snap,      \* history: storage as it was when the latest step began
  procs      \* frames of the operations that callers outside a run have in progress

vars == <<registry, doc, stored, fs, dirs, pc, idx, profile, results, call, raised, invoked, thrown,
          wlog, snap, procs>>

NoCall == [phase |-> "none"]
NoProfile == [id |-> "", unit |-> ""]

\* variant of lines 67-69 that reads a missing or non-list `steps` as no steps
RecipeStepsLenient(recipe) ==
  IF recipe.steps.t = "list" THEN Ok(recipe.steps.l) ELSE Ok(<<>>)

\* lines 67-69
RecipeSteps(recipe) ==
  IF recipe.steps.t = "list" THEN Ok(recipe.steps.l)
  ELSE Err("Recipe 'steps' must be a list")

Steps == RecipeSteps(doc).v
CurStep == Steps[idx + 1]
CurAction == Get(CurStep, "action")

\* the state when run_recipe_file is entered, for a set of recipe documents
\* and a set of values of the settings key, whoever the caller is
RunEntered(documents, ids) ==
  /\ registry = ALL_PROFILES
  /\ doc \in documents
  /\ stored \in ids
  /\ fs = [p \in {InPath} |-> SourceBytes]
  /\ dirs = {}
  /\ pc = "start"
  /\ idx = 0
  /\ profile = NoProfile
  /\ results = <<>>
  /\ call = NoCall
  /\ raised = ""
  /\ invoked = <<>>
  /\ thrown = <<>>
  /\ wlog = <<>>
  /\ snap = fs

\* run_recipe_file entered by a direct call
InitWith(documents, ids) ==
  /\ procs = <<>>
  /\ RunEntered(documents, ids)

Init == InitWith(Documents, {DEFAULT_PROFILE_ID})

(***************************************************************************)
(* run_recipe_file                                                         *)
(***************************************************************************)
\* file.write / write_bytes of a whole content
Write(storage, path, content) ==
  [q \in DOMAIN storage \cup {path} |-> IF q = path THEN content ELSE storage[q]]

\* lines 63-71, when nothing raises
LoadRecipe ==
  /\ pc = "start"
  /\ doc.top = "dict"
  /\ RecipeSteps(doc).ok
  /\ profile' = registry[GetScaleProfile(doc, stored)]
  /\ pc' = "loop"
  /\ UNCHANGED <<registry, procs, doc, stored, fs, dirs, idx, results, call, raised, invoked, thrown, wlog, snap>>

\* the error of lines 30-36 or of line 69
LoadError ==
  CASE doc.top = "unparsable" -> "Expecting value: line 1 column 1 (char 0)"
    [] doc.top = "not_a_dict" -> "Recipe must be a JSON/YAML object at top level"
    [] OTHER -> RecipeSteps(doc).err

\* lines 63-69, when _load_recipe_file or the steps check raises
LoadRecipeRaises ==
  /\ pc = "start"
  /\ doc.top # "dict" \/ ~RecipeSteps(doc).ok
  /\ profile' = IF doc.top = "dict" THEN registry[GetScaleProfile(doc, stored)] ELSE profile
  /\ raised' = LoadError
  /\ pc' = "raised"
  /\ UNCHANGED <<registry, procs, doc, stored, fs, dirs, idx, results, call, invoked, thrown, wlog, snap>>

\* variant of the loop that passes over the step after a failed one
RecordSkipsAfterFailure(result) ==
  /\ results' = Append(results, result)
  /\ idx' = IF result.ok THEN idx + 1 ELSE idx + 2
  /\ pc' = "loop"

\* variant of the loop that keeps a result only when the step succeeded
RecordOnlyOk(result) ==
  /\ results' = IF result.ok THEN Append(results, result) ELSE results
  /\ idx' = idx + 1
  /\ pc' = "loop"

\* variant of the loop that runs a failed step again instead of recording it
RecordRetriesFailed(result) ==
  /\ results' = IF result.ok THEN Append(results, result) ELSE results
  /\ idx' = IF result.ok THEN idx + 1 ELSE idx
  /\ pc' = "loop"

\* the loop moves to the next step with one more result
Record(result) ==
  /\ results' = Append(results, result)
  /\ idx' = idx + 1
  /\ pc' = "loop"

InLoop == pc = "loop" /\ idx < Len(Steps)

\* lines 74-76
StepNotDict ==
  /\ InLoop
  /\ ~CurStep.isdict
  /\ Record(InvalidResult(idx))
  /\ snap' = fs
  /\ UNCHANGED <<registry, procs, doc, stored, fs, dirs, profile, call, raised, invoked, thrown, wlog>>

\* lines 118-119
StepUnknownAction ==
  /\ InLoop
  /\ CurStep.isdict
  /\ ~IsKnown(CurStep)
  /\ Record(UnknownResult(idx, CurAction))
  /\ snap' = fs
  /\ UNCHANGED <<registry, procs, doc, stored, fs, dirs, profile, call, raised, invoked, thrown, wlog>>

\* a statement before the collaborator call raises; lines 120-121
StepParameterError ==
  /\ InLoop
  /\ CurStep.isdict
  /\ IsKnown(CurStep)
  /\ ~Prepare(CurStep, profile).ok
  /\ Record(FailedResult(idx, CurAction, Prepare(CurStep, profile).err, <<>>))
  /\ snap' = fs
  /\ UNCHANGED <<registry, procs, doc, stored, fs, dirs, profile, call, raised, invoked, thrown, wlog>>

\* line 90 raises (the parent directory cannot be created); lines 120-121
StepMkdirFails ==
  /\ InLoop
  /\ CurStep.isdict
  /\ IsAction(CurStep, "create_tank")
  /\ Prepare(CurStep, profile).ok
  /\ Record(FailedResult(idx, CurAction, "[Errno 13] Permission denied", <<>>))
  /\ snap' = fs
  /\ UNCHANGED <<registry, procs, doc, stored, fs, dirs, profile, call, raised, invoked, thrown, wlog>>

\* lines 90-91, 102, 108, 115: the collaborator is called
StepDispatch ==
  /\ InLoop
  /\ CurStep.isdict
  /\ IsKnown(CurStep)
  /\ Prepare(CurStep, profile).ok
  /\ LET args == Prepare(CurStep, profile).v
     IN /\ dirs' = IF args.fn = "create_tank_glb" THEN dirs \cup {Parent(args.out)} ELSE dirs
        /\ call' = [phase |-> "enter", step |-> idx, args |-> args, todo |-> Jobs(args),
                    created |-> <<>>, manifest |-> Null]
        /\ invoked' = Append(invoked, [step |-> idx, fn |-> args.fn])
  /\ pc' = "call"
  /\ snap' = fs
  /\ UNCHANGED <<registry, procs, doc, stored, fs, idx, profile, results, raised, thrown, wlog>>

(***************************************************************************)
(* The collaborator call in progress                                       *)
(***************************************************************************)
Job == Head(call.todo)

\* the converters read their input first (trimesh.load, Image.open)
InputReadable(args, storage) ==
  args.fn \in {"convert_model_to_glb", "convert_image"} => args.inp \in DOMAIN storage

\* im.save(output_path, format=fmt) needs fmt to be a string:
\* fmt is `format or <extension of the output>`
SaveFormatUsable(job) ==
  job.action = "convert_image" =>
    (~Truthy(job.params.format) \/ job.params.format.t = "str")

\* mkdir of the output directory, and the input is read
CollaboratorEnters ==
  /\ pc = "call"
  /\ call.phase = "enter"
  /\ InputReadable(call.args, fs)
  /\ dirs' = dirs \cup DirsOf(call.args)
  /\ call' = [call EXCEPT !.phase = "artifact"]
  /\ UNCHANGED <<registry, procs, doc, stored, fs, pc, idx, profile, results, raised, invoked, thrown, wlog, snap>>

\* export_mesh_glb / output_path.write_bytes / im.save
WriteArtifact ==
  /\ pc = "call"
  /\ call.phase = "artifact"
  /\ call.todo # <<>>
  /\ SaveFormatUsable(Job)
  /\ fs' = Write(fs, Job.out, Bytes(Job.action, Len(wlog) + 1))
  /\ wlog' = Append(wlog, [step |-> idx, path |-> Job.out])
  /\ dirs' = dirs \cup {Parent(Job.out)}
  /\ call' = [call EXCEPT !.phase = "manifest"]
  /\ UNCHANGED <<registry, procs, doc, stored, pc, idx, profile, results, raised, invoked, thrown, snap>>

\* create_for_mesh / create_for_file
BuildManifest ==
  /\ pc = "call"
  /\ call.phase = "manifest"
  /\ call' = [call EXCEPT !.phase = "json", !.manifest = Manifest(Job, fs)]
  /\ UNCHANGED <<registry, procs, doc, stored, fs, dirs, pc, idx, profile, results, raised, invoked, thrown, wlog, snap>>

\* write_sidecars, lines 220-221
WriteJson ==
  /\ pc = "call"
  /\ call.phase = "json"
  /\ fs' = Write(fs, SidecarPaths(Job.out)[1], JsonSidecar(call.manifest))
  /\ wlog' = Append(wlog, [step |-> idx, path |-> SidecarPaths(Job.out)[1]])
  /\ call' = [call EXCEPT !.phase = "yaml"]
  /\ UNCHANGED <<registry, procs, doc, stored, dirs, pc, idx, profile, results, raised, invoked, thrown, snap>>

\* variant of lines 222-224 after which the artifact is written once more
WriteYamlRewritesArtifact ==
  /\ pc = "call"
  /\ call.phase = "yaml"
  /\ fs' = Write(Write(fs, SidecarPaths(Job.out)[2], YamlSidecar(call.manifest)),
                 Job.out, Bytes(Job.action, Len(wlog) + 2))
  /\ wlog' = Append(wlog, [step |-> idx, path |-> SidecarPaths(Job.out)[2]])
  /\ call' = [call EXCEPT !.phase = "artifact", !.todo = Tail(@),
                          !.created = Append(@, Job.out), !.manifest = Null]
  /\ UNCHANGED <<registry, procs, doc, stored, dirs, pc, idx, profile, results, raised, invoked, thrown, snap>>

\* write_sidecars, lines 222-224, and the return of create_tank_glb or of a converter
WriteYaml ==
  /\ pc = "call"
  /\ call.phase = "yaml"
  /\ fs' = Write(fs, SidecarPaths(Job.out)[2], YamlSidecar(call.manifest))
  /\ wlog' = Append(wlog, [step |-> idx, path |-> SidecarPaths(Job.out)[2]])
  /\ call' = [call EXCEPT !.phase = "artifact", !.todo = Tail(@),
                          !.created = Append(@, Job.out), !.manifest = Null]
  /\ UNCHANGED <<registry, procs, doc, stored, dirs, pc, idx, profile, results, raised, invoked, thrown, snap>>

\* the collaborator returns; lines 92-93, 103-104, 109-110, 116-117
CollaboratorReturns ==
  /\ pc = "call"
  /\ call.phase = "artifact"
  /\ call.todo = <<>>
  /\ Record(OkResult(idx, CurAction, call.args.fn, call.created))
  /\ call' = NoCall
  /\ UNCHANGED <<registry, procs, doc, stored, fs, dirs, profile, raised, invoked, thrown, wlog, snap>>

\* The ways the call in progress can raise: the message, and the file (if
\* any) that the interrupted write leaves truncated.
RaiseOutcomes ==
  CASE call.phase = "enter" ->
         IF InputReadable(call.args, fs)
         THEN {}
         ELSE {[message |-> "[Errno 2] No such file or directory: '"
                              \o Join(call.args.inp) \o "'",
                damaged |-> NoPath]}
    [] call.phase = "artifact" /\ call.todo = <<>> -> {}
    [] call.phase = "artifact" /\ call.todo # <<>> ->
         IF SaveFormatUsable(Job)
         THEN {[message |-> "cannot write the artifact", damaged |-> p] : p \in {NoPath, Job.out}}
         ELSE {[message |-> "'" \o TypeName(Job.params.format)
                              \o "' object has no attribute 'upper'",
                damaged |-> NoPath]}
    [] call.phase = "manifest" ->
         {[message |-> "cannot read the artifact", damaged |-> NoPath]}
    [] call.phase = "json" ->
         {[message |-> "cannot write the JSON sidecar", damaged |-> p] :
            p \in {NoPath, SidecarPaths(Job.out)[1]}}
    [] call.phase = "yaml" ->
         {[message |-> "cannot write the YAML sidecar", damaged |-> p] :
            p \in {NoPath, SidecarPaths(Job.out)[2]}}
    [] OTHER -> {}

\* variant without the try/except of lines 78 and 120: the error leaves run_recipe_file
CollaboratorRaisesPropagates ==
  /\ pc = "call"
  /\ \E o \in RaiseOutcomes :
       /\ raised' = o.message
       /\ thrown' = Append(thrown, [step |-> idx, message |-> o.message])
       /\ IF o.damaged = NoPath
          THEN UNCHANGED <<fs, wlog>>
          ELSE /\ fs' = Write(fs, o.damaged, Bytes("partial", Len(wlog) + 1))
               /\ wlog' = Append(wlog, [step |-> idx, path |-> o.damaged])
  /\ pc' = "raised"
  /\ call' = NoCall
  /\ UNCHANGED <<registry, procs, doc, stored, dirs, idx, profile, results, invoked, snap>>

\* the collaborator raises and the step's except clause records it; lines 120-121
CollaboratorRaises ==
  /\ pc = "call"
  /\ \E o \in RaiseOutcomes :
       /\ Record(FailedResult(idx, CurAction, o.message, call.created))
       /\ thrown' = Append(thrown, [step |-> idx, message |-> o.message])
       /\ IF o.damaged = NoPath
          THEN UNCHANGED <<fs, wlog>>
          ELSE /\ fs' = Write(fs, o.damaged, Bytes("partial", Len(wlog) + 1))
               /\ wlog' = Append(wlog, [step |-> idx, path |-> o.damaged])
  /\ call' = NoCall
  /\ UNCHANGED <<registry, procs, doc, stored, dirs, profile, raised, invoked, snap>>

\* line 123
ReturnResults ==
  /\ pc = "loop"
  /\ idx = Len(Steps)
  /\ pc' = "done"
  /\ UNCHANGED <<registry, procs, doc, stored, fs, dirs, idx, profile, results, call, raised, invoked, thrown, wlog, snap>>

Next ==
  \/ LoadRecipe
  \/ LoadRecipeRaises
  \/ StepNotDict
  \/ StepUnknownAction
  \/ StepParameterError
  \/ StepMkdirFails
  \/ StepDispatch
  \/ CollaboratorEnters
  \/ WriteArtifact
  \/ BuildManifest
  \/ WriteJson
  \/ WriteYaml
  \/ CollaboratorReturns
  \/ CollaboratorRaises
  \/ ReturnResults

Spec == Init /\ [][Next]_vars

TypeOK ==
  /\ pc \in {"start", "loop", "call", "done", "raised"}
  /\ idx \in 0 .. MaxSteps + 1
  /\ Len(results) <= idx

(***************************************************************************)
(* Properties of run_recipe_file                                           *)
(***************************************************************************)
Last(q) == q[Len(q)]

\* the action tag a StepResult is expected to carry for a step of the document
TagOf(step) == IF step.isdict THEN PyStr(Get(step, "action")) ELSE "<invalid>"

\* the step's action value is none of the four enumerated action names
OutsideEnumeratedSet(step) ==
  step.kv["action"] \notin {Str(a) : a \in KnownActions}

\* C1: a recipe that is a keyed record with a list `steps` of length N never
\* makes the run raise, and the run returns exactly N StepResults, the i-th
\* with index i and the tag of the i-th step, however many steps fail.
C1_OneResultPerStep ==
  (doc.top = "dict" /\ doc.steps.t = "list") =>
    /\ pc # "raised"
    /\ Len(results) <= Len(doc.steps.l)
    /\ \A i \in 1 .. Len(results) :
         /\ results[i].index = i - 1
         /\ results[i].action = TagOf(doc.steps.l[i])
    /\ (pc = "done" => Len(results) = Len(doc.steps.l))

C1_Witness ==
  /\ pc = "done"
  /\ Len(results) >= 2
  /\ ~results[1].ok
  /\ results[2].ok

\* C2: an error raised by the collaborator of step i does not leave
\* run_recipe_file: result i is Failed with the error text as message, and
\* the run still returns a result for every step after i.
C2_CollaboratorErrorBecomesFailedResult ==
  /\ (thrown # <<>> => (pc # "raised" /\ raised = ""))
  /\ \A k \in 1 .. Len(thrown) :
       LET i == thrown[k].step
       IN /\ Len(results) > i
          /\ results[i + 1].index = i
          /\ ~results[i + 1].ok
          /\ results[i + 1].message = thrown[k].message
          /\ (pc = "done" => \A j \in i + 1 .. Len(Steps) - 1 :
                               Len(results) > j /\ results[j + 1].index = j)

C2_Witness ==
  /\ pc = "done"
  /\ Len(thrown) >= 1
  /\ thrown[1].step = 0
  /\ Len(results) >= 2
  /\ results[2].ok

\* C3: a step that is not a keyed record, or whose action is outside the
\* enumerated set, gets a Failed result with no outputs, no collaborator is
\* invoked for it and no file is written for it; a non-record step is tagged
\* "<invalid>".
C3_RejectedStepTouchesNothing ==
  \A i \in 1 .. Len(results) :
    (~Steps[i].isdict \/ OutsideEnumeratedSet(Steps[i])) =>
      /\ ~results[i].ok
      /\ results[i].outputs = <<>>
      /\ (~Steps[i].isdict => results[i].action = "<invalid>")
      /\ \A k \in 1 .. Len(invoked) : invoked[k].step # i - 1
      /\ \A k \in 1 .. Len(wlog) : wlog[k].step # i - 1

C3_Witness ==
  /\ pc = "done"
  /\ Len(results) >= 2
  /\ results[1].ok
  /\ ~Steps[2].isdict
  /\ results[2].action = "<invalid>"
  /\ wlog # <<>>

\* C4: a keyed-record step whose action is outside the enumerated set gets
\* ok = false, the message "Unknown action" and the string form of its action
\* value as tag.
C4_UnknownActionResult ==
  \A i \in 1 .. Len(results) :
    (Steps[i].isdict /\ OutsideEnumeratedSet(Steps[i])) =>
      results[i] = [index |-> i - 1, action |-> PyStr(Get(Steps[i], "action")),
                    ok |-> FALSE, message |-> "Unknown action", outputs |-> <<>>]

C4_Witness ==
  /\ pc = "done"
  /\ Len(results) >= 2
  /\ Steps[1].kv["action"] = IntV(7)
  /\ results[1].action = "7"
  /\ Steps[2].kv["action"] = Missing
  /\ results[2].action = "None"
  /\ results[2].message = "Unknown action"

\* a value that is an integer or a real number (not a boolean)
IsNumeric(v) == v.t \in {"int", "float"}

IsNumericList(v) == v.t = "list" /\ \A n \in 1 .. Len(v.l) : IsNumeric(v.l[n])

\* the key is present in the step, with whatever value
Present(step, k) == step.kv[k].t # "missing"

\* the step, of a recognised action, lacks a required parameter or carries a
\* parameter of the wrong type, as the recipe document format lists them
MissingOrIllTyped(step) ==
  \/ /\ step.kv["action"] = Str("create_tank")
     /\ \/ step.kv["output"].t # "str"
        \/ ~IsNumeric(step.kv["diameter"])
        \/ (Present(step, "length_factor") /\ ~IsNumeric(step.kv["length_factor"]))
        \/ (Present(step, "segments") /\ step.kv["segments"].t # "int")
  \/ /\ step.kv["action"] = Str("create_tank_family")
     /\ \/ step.kv["output_dir"].t # "str"
        \/ ~IsNumericList(step.kv["diameters"])
        \/ ~IsNumericList(step.kv["length_factors"])
        \/ (Present(step, "segments") /\ step.kv["segments"].t # "int")
  \/ /\ step.kv["action"] = Str("convert_model_to_glb")
     /\ (step.kv["input"].t # "str" \/ step.kv["output"].t # "str")
  \/ /\ step.kv["action"] = Str("convert_image")
     /\ \/ step.kv["input"].t # "str"
        \/ step.kv["output"].t # "str"
        \/ (Present(step, "format") /\ step.kv["format"].t # "str")

\* C5: a step of a recognised action with a missing or ill-typed parameter
\* (non-numeric diameter or length_factor, diameters or length_factors not a
\* list of numbers, non-integer segments, non-path input/output, non-string
\* format) gets a Failed result and its collaborator is never invoked.
C5_IllTypedStepNeverDispatched ==
  (doc.top = "dict" /\ doc.steps.t = "list") =>
    \A i \in 1 .. Len(doc.steps.l) :
      (doc.steps.l[i].isdict /\ MissingOrIllTyped(doc.steps.l[i])) =>
        /\ \A k \in 1 .. Len(invoked) : invoked[k].step # i - 1
        /\ (Len(results) >= i => ~results[i].ok)

\* C6: a recipe whose top-level value is not a keyed record, or whose `steps`
\* is missing or not a list, makes run_recipe_file raise before any step: no
\* StepResult, no collaborator call, no file and no directory is produced.
C6_MalformedRecipeAbortsBeforeSteps ==
  (doc.top # "dict" \/ doc.steps.t # "list") =>
    /\ pc \in {"start", "raised"}
    /\ (pc = "raised" => raised # "")
    /\ results = <<>>
    /\ invoked = <<>>
    /\ wlog = <<>>
    /\ dirs = {}
    /\ fs = snap

C6_Witness ==
  /\ pc = "raised"
  /\ doc.top = "dict"
  /\ doc.steps = Str("later")
  /\ raised = "Recipe 'steps' must be a list"

\* C7: steps are processed in document order: the collaborator of a step is
\* invoked only when the results of all earlier steps are recorded, every
\* step is invoked at most once and later than the steps before it, writes
\* happen in step order, and at most one collaborator call is in progress.
C7_OneStepAtATimeInOrder ==
  /\ \A k \in 1 .. Len(invoked) : invoked[k].step <= Len(results)
  /\ \A k, l \in 1 .. Len(invoked) : k < l => invoked[k].step < invoked[l].step
  /\ \A k, l \in 1 .. Len(wlog) : k < l => wlog[k].step <= wlog[l].step
  /\ Cardinality({k \in 1 .. Len(invoked) : invoked[k].step >= Len(results)}) <= 1
  /\ (call.phase # "none" =>
        /\ invoked # <<>>
        /\ Last(invoked).step = Len(results)
        /\ call.step = Len(results))

C7_Witness ==
  /\ pc = "call"
  /\ call.phase = "json"
  /\ call.step = 1
  /\ Len(invoked) = 2
  /\ Len(results) = 1

\* C8: every StepResult with ok = false has no outputs, whether the step was
\* rejected, failed validation, or its collaborator raised after writing.
C8_FailedResultHasNoOutputs ==
  \A i \in 1 .. Len(results) : ~results[i].ok => results[i].outputs = <<>>

C8_Witness ==
  /\ pc = "done"
  /\ \E i \in 1 .. Len(results) :
       /\ ~results[i].ok
       /\ Steps[i].kv["action"] = Str("create_tank_family")
       /\ Cardinality({k \in 1 .. Len(wlog) : wlog[k].step = i - 1}) >= 4

\* the artifact at path p and its two sidecars are complete on storage, and
\* both sidecars hold the same record, made for p
CompletePair(storage, p) ==
  LET j == WithSuffix(p, ".ams.json")
      y == WithSuffix(p, ".ams.yaml")
  IN /\ {p, j, y} \subseteq DOMAIN storage
     /\ storage[p].kind \notin {"partial", "json", "yaml"}
     /\ storage[j].kind = "json"
     /\ storage[y].kind = "yaml"
     /\ storage[j].doc = storage[y].doc
     /\ storage[j].doc.output.file_path = p

\* C9: when a step's result is recorded with ok = true, every path in its
\* outputs is on storage with its complete .ams.json / .ams.yaml pair; so a
\* step whose artifact was written but whose manifest or sidecar write failed
\* is never recorded as ok.
C9_OkResultHasCompletePairs ==
  [][(Len(results') = Len(results) + 1 /\ Last(results').ok) =>
       \A n \in 1 .. Len(Last(results').outputs) :
         CompletePair(fs', Last(results').outputs[n])]_vars

C9_Witness ==
  /\ pc = "done"
  /\ Len(results) >= 2
  /\ results[1].ok
  /\ Len(results[1].outputs) = 2
  /\ ~results[2].ok
  /\ results[2].message = "cannot write the YAML sidecar"

\* C10: when a step fails, the artifacts and sidecars of the earlier
\* successful steps are on storage exactly as they were before the failing
\* step began.
C10_FailedStepLeavesEarlierOutputs ==
  (pc \in {"loop", "done"} /\ results # <<>> /\ ~Last(results).ok) =>
    \A i \in 1 .. Len(results) - 1 :
      results[i].ok =>
        \A n \in 1 .. Len(results[i].outputs) :
          \A q \in {results[i].outputs[n],
                    WithSuffix(results[i].outputs[n], ".ams.json"),
                    WithSuffix(results[i].outputs[n], ".ams.yaml")} :
            q \in DOMAIN fs /\ q \in DOMAIN snap /\ fs[q] = snap[q]

(***************************************************************************)
(* Termination of run_recipe_file                                          *)
(***************************************************************************)
\* the interpreter keeps executing run_recipe_file: whenever a statement of
\* the run can execute, one eventually does, and a collaborator call in
\* progress eventually returns or raises

\* one step for each way a step can end: not a record, unknown action,
\* parameter error, collaborator success with one and with two artifacts,
\* collaborator error
TerminationSteps ==
  {NotADict,
   Dict([NoKeys EXCEPT !["action"] = Str("bogus")]),
   With(TankStep, "diameter", Str("wide")),
   TankStep,
   FamilyStep,
   With(ModelStep, "input", PathStr(GonePath))}

TerminationDocuments ==
  {d \in Documents :
     (d.top = "dict" /\ d.steps.t = "list") =>
       \A i \in 1 .. Len(d.steps.l) : d.steps.l[i] \in TerminationSteps}

FairSpec ==
  InitWith(TerminationDocuments, {DEFAULT_PROFILE_ID}) /\ [][Next]_vars /\ WF_vars(Next)

\* C11: provided every collaborator call returns or raises, the run ends
\* (it returns the results or raises at load time), and it does so after one
\* pass over the steps: the step index only ever moves to the next step, each
\* move records exactly one result, no step's collaborator is invoked twice,
\* and the results are returned only when every step has been attempted.
C11_TerminatesAfterOnePass ==
  /\ <>(pc \in {"done", "raised"})
  /\ [][/\ idx' \in {idx, idx + 1}
        /\ (idx' = idx + 1 => Len(results') = Len(results) + 1)
        /\ (idx' = idx => results' = results)
        /\ \A a, b \in 1 .. Len(invoked') :
             invoked'[a].step = invoked'[b].step => a = b
        /\ (pc' = "done" => idx' = Len(Steps) /\ Len(results') = Len(Steps))]_vars

C11_Witness ==
  /\ pc = "done"
  /\ Len(Steps) = MaxSteps
  /\ Len(invoked) = MaxSteps
  /\ \E i \in 1 .. Len(results) : ~results[i].ok

(***************************************************************************)
(* Output paths of one run                                                 *)
(***************************************************************************)
\* C12: within one run no path is written twice: neither by two steps nor by
\* two variants of one create_tank_family step.
C12_OutputPathsWrittenOnce ==
  \A a, b \in 1 .. Len(wlog) : wlog[a].path = wlog[b].path => a = b

(***************************************************************************)
(* Runs under every profile: the recipe names a profile or not, and the    *)
(* settings key holds a registered id or a value left by something else    *)
(***************************************************************************)
MaxUnitSteps == 1

\* values of the recipe's scale_profile key
UnitScaleProfileValues == {Missing, Str("small_mm"), Str("tiny_um"), IntV(3)}

\* values of the settings key "scale/profile_id"
UnitStoredValues == {"small_mm", "large_scene", "legacy_cm"}

ShortFamilyStep == With(FamilyStep, "length_factors", ListV(<<IntV(1)>>))

UnitSteps ==
  {NotADict,
   Dict([NoKeys EXCEPT !["action"] = Str("bogus")]),
   With(TankStep, "diameter", Str("wide")),
   TankStep,
   With(TankStep, "diameter_unit", Str("mm")),
   With(TankStep, "diameter_unit", Str("m")),
   With(TankStep, "diameter_unit", Str("")),
   ShortFamilyStep,
   With(ShortFamilyStep, "diameters_unit", Str("mm"))}

UnitDocuments ==
  {[top |-> "dict", scale_profile |-> sp, steps |-> Missing] : sp \in UnitScaleProfileValues}
  \cup {[top |-> "dict", scale_profile |-> sp, steps |-> ListV(l)] :
          sp \in UnitScaleProfileValues, l \in SeqsUpTo(UnitSteps, MaxUnitSteps)}

UnitSpec == InitWith(UnitDocuments, UnitStoredValues) /\ [][Next]_vars

\* C13: the profile of a run is the one the recipe's scale_profile names when
\* that value is a string naming a registered profile; in every other case it
\* is the current profile of the settings (the default profile when the
\* stored id is not registered), and the run raises only for a reason other
\* than the scale_profile value.
C13_ProfileFromRecipeOrSettings ==
  LET registered == {"small_mm", "normal_m", "large_scene"}
      sp == doc.scale_profile
      current == IF stored \in registered THEN stored ELSE "normal_m"
  IN /\ (pc = "raised" => doc.steps.t # "list")
     /\ (pc # "start" =>
           /\ profile.id = IF sp.t = "str" /\ sp.s \in registered THEN sp.s ELSE current
           /\ profile = ALL_PROFILES[profile.id])

\* a finished run whose recipe names an unregistered profile while the
\* settings hold a registered id other than the default
C13_Witness ==
  /\ pc = "done"
  /\ Len(results) = 1
  /\ results[1].ok
  /\ doc.scale_profile = Str("tiny_um")
  /\ stored = "large_scene"
  /\ profile.id = "large_scene"

\* the unit a step states for its diameters: the value of its unit key when
\* the key is present, the unit of the run's profile otherwise
EffectiveUnit(step, k) ==
  IF Present(step, k) THEN step.kv[k] ELSE Str(profile.unit)

\* m is d converted to meters from the unit: a thousandth for millimeters,
\* the same number for meters
InMeters(m, d, unit) ==
  /\ (unit = Str("mm") => m * 1000 = d)
  /\ (unit = Str("m") => m = d)

\* C14: while a tank collaborator is being called, the diameter it was given
\* is the step's diameter in meters (a thousandth of it when the effective
\* unit is millimeters, the same number when it is meters), and so is every
\* element of the diameters given for a create_tank_family step.
C14_DiametersHandedOverInMeters ==
  pc = "call" =>
    LET step == Steps[call.step + 1]
        args == call.args
    IN /\ (args.fn = "create_tank_glb" =>
             InMeters(args.diameter_m, step.kv["diameter"].u,
                      EffectiveUnit(step, "diameter_unit")))
       /\ (args.fn = "create_tank_variants_glb" =>
             /\ Len(args.diameters_m) = Len(step.kv["diameters"].l)
             /\ \A i \in 1 .. Len(args.diameters_m) :
                  InMeters(args.diameters_m[i], step.kv["diameters"].l[i].u,
                           EffectiveUnit(step, "diameters_unit")))

\* a tank whose step says millimeters under a meter profile, and a family
\* without a unit under the millimeter profile, each handed over converted
C14_Witness ==
  /\ pc = "call"
  /\ \/ /\ call.args.fn = "create_tank_glb"
        /\ profile.unit = "m"
        /\ Steps[call.step + 1].kv["diameter_unit"] = Str("mm")
        /\ call.args.diameter_m = 2000
     \/ /\ call.args.fn = "create_tank_variants_glb"
        /\ profile.unit = "mm"
        /\ ~Present(Steps[call.step + 1], "diameters_unit")
        /\ call.args.diameters_m = <<1250>>

\* the diameters of a tank step, as written in the recipe
StepDiameters(step) ==
  IF IsAction(step, "create_tank") THEN <<step.kv["diameter"].u>>
  ELSE [i \in 1 .. Len(step.kv["diameters"].l) |-> step.kv["diameters"].l[i].u]

\* C15: a create_tank or create_tank_family step with a diameter outside
\* [min_value, max_value] of the run's profile never reaches its collaborator
\* (every tank collaborator invoked was given diameters within the range).
C15_OutOfRangeDiameterNeverDispatched ==
  \A n \in 1 .. Len(invoked) :
    invoked[n].fn \in {"create_tank_glb", "create_tank_variants_glb"} =>
      LET ds == StepDiameters(Steps[invoked[n].step + 1])
      IN \A i \in 1 .. Len(ds) :
           profile.min_value <= ds[i] /\ ds[i] <= profile.max_value

(***************************************************************************)
(* The settings store: set_current_profile and get_current_profile called  *)
(* in any order by the application                                         *)
(***************************************************************************)
MaxCalls == 3

\* what the settings key holds when the application starts: nothing, an id
\* no longer registered, a registered id
InitialStoredValues == {Unset, "legacy_cm", "large_scene"}

\* the identifiers callers pass to set_current_profile
RequestedIds == {"small_mm", "normal_m", "large_scene", "tiny_um"}

NoRecipe == [top |-> "none", scale_profile |-> Missing, steps |-> Missing]

SettingsInit ==
  /\ registry = ALL_PROFILES
  /\ stored \in InitialStoredValues
  /\ profile = NoProfile
  /\ raised = ""
  /\ invoked = <<>>
  /\ thrown = <<>>
  /\ pc = "idle"
  /\ doc = NoRecipe
  /\ fs = <<>>
  /\ dirs = {}
  /\ idx = 0
  /\ results = <<>>
  /\ call = NoCall
  /\ wlog = <<>>
  /\ snap = <<>>
  /\ procs = <<>>

\* variant without the membership test of line 82
SetCurrentProfileStoresAnything(profile_id) ==
  /\ pc = "idle"
  /\ Len(invoked) < MaxCalls
  /\ invoked' = Append(invoked, [fn |-> "set_current_profile", arg |-> profile_id])
  /\ stored' = profile_id
  /\ raised' = ""
  /\ UNCHANGED <<registry, procs, doc, fs, dirs, pc, idx, profile, results, call, thrown, wlog, snap>>

\* set_current_profile, lines 81-85
SetCurrentProfile(profile_id) ==
  /\ pc = "idle"
  /\ Len(invoked) < MaxCalls
  /\ invoked' = Append(invoked, [fn |-> "set_current_profile", arg |-> profile_id])
  /\ IF profile_id \notin DOMAIN registry
     THEN /\ raised' = "Unknown profile: " \o profile_id
          /\ thrown' = Append(thrown, [step |-> Len(invoked), message |-> raised'])
          /\ stored' = stored
     ELSE /\ raised' = ""
          /\ thrown' = thrown
          /\ stored' = profile_id
  /\ UNCHANGED <<registry, procs, doc, fs, dirs, pc, idx, profile, results, call, wlog, snap>>

\* get_current_profile, lines 75-78; profile holds what it returned
CallGetCurrentProfile ==
  /\ pc = "idle"
  /\ Len(invoked) < MaxCalls
  /\ invoked' = Append(invoked, [fn |-> "get_current_profile", arg |-> ""])
  /\ profile' = GetCurrentProfile(stored)
  /\ raised' = ""
  /\ UNCHANGED <<registry, procs, doc, stored, fs, dirs, pc, idx, results, call, thrown, wlog, snap>>

SettingsNext ==
  \/ \E profile_id \in RequestedIds : SetCurrentProfile(profile_id)
  \/ CallGetCurrentProfile

SettingsSpec == SettingsInit /\ [][SettingsNext]_vars

\* the calls of set_current_profile, in the history, that named a registered id
AcceptedSets ==
  {n \in 1 .. Len(invoked) :
     /\ invoked[n].fn = "set_current_profile"
     /\ invoked[n].arg \in {"small_mm", "normal_m", "large_scene"}}

\* C16: whatever calls came before, get_current_profile returns a registered
\* profile: the one named by the latest accepted set_current_profile, else the
\* one the store already held, else (nothing stored, or an unregistered id
\* stored) the default profile normal_m; and the registered profiles stay
\* the three the module defines.
C16_CurrentProfileIsRegistered ==
  LET registered == {"small_mm", "normal_m", "large_scene"}
      latest == CHOOSE n \in AcceptedSets : \A m \in AcceptedSets : m <= n
      expected == IF AcceptedSets # {} THEN invoked[latest].arg
                  ELSE IF stored \in registered THEN stored
                  ELSE "normal_m"
  IN /\ registry = ALL_PROFILES
     /\ DOMAIN registry = registered
     /\ (invoked # <<>> /\ Last(invoked).fn = "get_current_profile" =>
           /\ profile.id \in registered
           /\ profile = ALL_PROFILES[expected])

\* get_current_profile answers after an accepted and then a refused set, and
\* it answers with the default when the store holds an unregistered id
C16_Witness ==
  /\ Len(invoked) = 3
  /\ invoked[1] = [fn |-> "set_current_profile", arg |-> "small_mm"]
  /\ invoked[2] = [fn |-> "set_current_profile", arg |-> "tiny_um"]
  /\ invoked[3].fn = "get_current_profile"
  /\ profile.id = "small_mm"

\* C17: a set_current_profile call naming an unregistered id raises the
\* unknown-profile error and leaves the stored id as it was.
C17_UnknownProfileRefused ==
  [][(/\ Len(invoked') = Len(invoked) + 1
      /\ Last(invoked').fn = "set_current_profile"
      /\ Last(invoked').arg \notin {"small_mm", "normal_m", "large_scene"})
     => /\ raised' = "Unknown profile: " \o Last(invoked').arg
        /\ stored' = stored
        /\ Len(thrown') = Len(thrown) + 1]_vars

C17_Witness ==
  /\ Len(invoked) = 2
  /\ invoked[1] = [fn |-> "set_current_profile", arg |-> "small_mm"]
  /\ invoked[2] = [fn |-> "set_current_profile", arg |-> "tiny_um"]
  /\ raised = "Unknown profile: tiny_um"
  /\ stored = "small_mm"

(***************************************************************************)
(* ScaleProfile.to_meters and from_meters on binary floating-point numbers.*)
(* A float is m * 2^e with a mantissa of MantissaBits bits; division and   *)
(* multiplication round to the nearest float, ties to the even mantissa,   *)
(* as the float type of the language does with 53 bits.                    *)
(***************************************************************************)
MantissaBits == 8

RECURSIVE Pow2(_)
Pow2(n) == IF n = 0 THEN 1 ELSE 2 * Pow2(n - 1)

Float(m, e) == [m |-> m, e |-> e]

RECURSIVE RoundRatio(_, _, _)
\* the float nearest to n / d * 2^e, for positive integers n and d
RoundRatio(n, d, e) ==
  IF n < d * Pow2(MantissaBits - 1) THEN RoundRatio(2 * n, d, e - 1)
  ELSE IF n >= d * Pow2(MantissaBits) THEN RoundRatio(n, 2 * d, e + 1)
  ELSE LET q == n \div d
           r == n % d
           up == 2 * r > d \/ (2 * r = d /\ q % 2 = 1)
       IN IF ~up THEN Float(q, e)
          ELSE IF q + 1 = Pow2(MantissaBits) THEN Float(Pow2(MantissaBits - 1), e + 1)
          ELSE Float(q + 1, e)

\* value / 1000.0 and meters * 1000.0
DivideBy1000(x) == RoundRatio(x.m, 1000, x.e)
MultiplyBy1000(x) == RoundRatio(x.m * 1000, 1, x.e)

\* variant that hands millimeters through unconverted
ToMetersUnconverted(p, value) == value

\* ScaleProfile.to_meters, lines 23-26
ToMeters(p, value) == IF p.unit = "mm" THEN DivideBy1000(value) ELSE value

\* ScaleProfile.from_meters, lines 28-31
FromMeters(p, meters) == IF p.unit = "mm" THEN MultiplyBy1000(meters) ELSE meters

\* x * scale lies between the integers lo and hi
Within(x, scale, lo, hi) ==
  IF x.e >= 0
  THEN lo <= x.m * Pow2(x.e) * scale /\ x.m * Pow2(x.e) * scale <= hi
  ELSE lo * Pow2(-x.e) <= x.m * scale /\ x.m * scale <= hi * Pow2(-x.e)

\* every float with MantissaBits bits between a thousandth and a thousand
Floats ==
  {Float(m, e) : m \in Pow2(MantissaBits - 1) .. Pow2(MantissaBits) - 1,
                 e \in -(MantissaBits + 9) .. 10 - MantissaBits}

\* the floats within [min_value, max_value] of the profile, in its own unit
NativeValues(p) ==
  {v \in Floats : Within(v, 1, p.min_value \div 1000000, p.max_value \div 1000000)}

\* the floats that are, in meters, within the profile's range
MeterValues(p) ==
  {x \in Floats : Within(x, IF p.unit = "mm" THEN 1000 ELSE 1,
                         p.min_value \div 1000000, p.max_value \div 1000000)}

\* the variables of a recipe run while no run is in progress
NoRun ==
  /\ pc = "idle"
  /\ doc = NoRecipe
  /\ dirs = {}
  /\ idx = 0
  /\ results = <<>>
  /\ call = NoCall
  /\ raised = ""
  /\ thrown = <<>>
  /\ wlog = <<>>
  /\ snap = <<>>

\* a caller holds a profile and a number, in the profile's unit or in meters,
\* and is about to convert it there and back
ConvertInit ==
  /\ NoRun
  /\ fs = <<>>
  /\ registry = ALL_PROFILES
  /\ stored = Unset
  /\ invoked = <<>>
  /\ profile \in {ALL_PROFILES[id] : id \in DOMAIN ALL_PROFILES}
  /\ \/ \E v \in NativeValues(profile) : procs = <<[given |-> "native", x |-> v, now |-> v]>>
     \/ \E x \in MeterValues(profile) : procs = <<[given |-> "meters", x |-> x, now |-> x]>>

\* profile.to_meters(value): first for a native value, second for meters
CallToMeters ==
  /\ procs # <<>>
  /\ \/ procs[1].given = "native" /\ invoked = <<>>
     \/ procs[1].given = "meters" /\ invoked = <<"from_meters">>
  /\ procs' = <<[procs[1] EXCEPT !.now = ToMeters(profile, @)]>>
  /\ invoked' = Append(invoked, "to_meters")
  /\ UNCHANGED <<registry, doc, stored, fs, dirs, pc, idx, profile, results, call, raised, thrown,
                 wlog, snap>>

\* profile.from_meters(meters): first for meters, second for a native value
CallFromMeters ==
  /\ procs # <<>>
  /\ \/ procs[1].given = "meters" /\ invoked = <<>>
     \/ procs[1].given = "native" /\ invoked = <<"to_meters">>
  /\ procs' = <<[procs[1] EXCEPT !.now = FromMeters(profile, @)]>>
  /\ invoked' = Append(invoked, "from_meters")
  /\ UNCHANGED <<registry, doc, stored, fs, dirs, pc, idx, profile, results, call, raised, thrown,
                 wlog, snap>>

ConvertNext == CallToMeters \/ CallFromMeters

ConvertSpec == ConvertInit /\ [][ConvertNext]_vars

\* the distance between two floats is at most one unit in the last place of
\* the first
WithinOneUlp(a, b) ==
  CASE b.e = a.e -> b.m - a.m \in {-1, 0, 1}
    [] b.e = a.e + 1 -> 2 * b.m - a.m \in {0, 1}
    [] b.e = a.e - 1 -> 2 * a.m - b.m \in {0, 1, 2}
    [] OTHER -> FALSE

\* C18: converting a value of a registered profile's range to meters and
\* back, or meters to the profile's unit and back, gives the value again:
\* exactly for the meter profiles, and for the millimeter profile up to the
\* rounding of the division and the multiplication by 1000, which is at most
\* one unit in the last place of the value.
C18_ConversionRoundTrip ==
  (procs # <<>> /\ Len(invoked) = 2) =>
    /\ (profile.unit = "m" => procs[1].now = procs[1].x)
    /\ (profile.unit = "mm" => WithinOneUlp(procs[1].x, procs[1].now))

\* a millimeter value that does not come back exactly
C18_Witness ==
  /\ procs # <<>>
  /\ Len(invoked) = 2
  /\ profile.unit = "mm"
  /\ procs[1].given = "native"
  /\ procs[1].now # procs[1].x

(***************************************************************************)
(* Operations of two callers on one artifact path.  The window calls       *)
(* create_tank_glb, the converters and write_sidecar_from_scan on the       *)
(* interface thread while a RecipeWorker thread runs the collaborators of a *)
(* recipe; nothing locks the path, and other programs can remove the file. *)
(***************************************************************************)
Callers == {1, 2}

MaxRemovals == 1

\* the operations a caller can be in, all on the same output path
Operations ==
  {[fn |-> "create_tank_glb", out |-> TankPath, inp |-> NoPath],
   [fn |-> "convert_model_to_glb", out |-> TankPath, inp |-> InPath],
   [fn |-> "convert_image", out |-> TankPath, inp |-> InPath],
   [fn |-> "write_sidecar_from_scan", out |-> TankPath, inp |-> NoPath],
   [fn |-> "create_for_file", out |-> TankPath, inp |-> GonePath]}

\* the job an operation hands to create_for_mesh / create_for_file
JobOf(frame) ==
  CASE frame.fn = "create_tank_glb" -> TankJob(frame.out, 1250000, 1000000, 64)
    [] frame.fn = "convert_model_to_glb" ->
         Jobs([fn |-> frame.fn, inp |-> frame.inp, out |-> frame.out])[1]
    [] frame.fn = "convert_image" ->
         Jobs([fn |-> frame.fn, inp |-> frame.inp, out |-> frame.out, format |-> Missing])[1]
    [] frame.fn = "create_for_file" ->
         [out |-> frame.out, inp |-> frame.inp, mesh |-> FALSE,
          action |-> "import", source_type |-> "converted",
          scale_profile_id |-> "normal_m", unit |-> "m",
          params |-> [input |-> frame.inp]]
    [] frame.fn = "write_sidecar_from_scan" ->
         [out |-> frame.out, inp |-> NoPath, mesh |-> frame.detected = "model",
          action |-> "scan", source_type |-> "generated",
          scale_profile_id |-> GetCurrentProfile(stored).id,
          unit |-> GetCurrentProfile(stored).unit,
          params |-> [detected_type |-> frame.detected]]

\* the frame of an operation that is about to start
Entered(op) ==
  [fn |-> op.fn, out |-> op.out, inp |-> op.inp,
   at |-> CASE op.fn = "write_sidecar_from_scan" -> "scan"
            [] op.fn = "create_for_file" -> "digest"
            [] OTHER -> "artifact",
   detected |-> "", file_sha |-> Null, file_size |-> Null, manifest |-> Null,
   audit |-> 0, error |-> "", wrote |-> {}]

StoreInit ==
  /\ NoRun
  /\ fs = [q \in {InPath} |-> SourceBytes]
  /\ registry = ALL_PROFILES
  /\ stored = Unset
  /\ profile = NoProfile
  /\ invoked = <<>>
  /\ procs \in [Callers -> {Entered(op) : op \in Operations}]

\* the rest of the state when only the frame of caller p and storage change
OnlyFrame(p, frame) ==
  /\ procs' = [procs EXCEPT ![p] = frame]
  /\ UNCHANGED <<registry, doc, stored, dirs, pc, idx, profile, results, call, raised, invoked,
                 thrown, snap>>

FileNotFound(path) == "[Errno 2] No such file or directory: '" \o Join(path) \o "'"

\* variant of the artifact write that waits until no other caller is between
\* its artifact write and its return
OpWritesArtifactUnderLock(p) ==
  /\ procs[p].at = "artifact"
  /\ \A q \in Callers \ {p} : procs[q].at \in {"artifact", "scan", "done", "failed"}
  /\ fs' = Write(fs, procs[p].out, Bytes(procs[p].fn, p))
  /\ wlog' = wlog
  /\ OnlyFrame(p, [procs[p] EXCEPT !.at = "digest", !.wrote = @ \cup {procs[p].out}])

\* export_mesh_glb, output_path.write_bytes, im.save
OpWritesArtifact(p) ==
  /\ procs[p].at = "artifact"
  /\ fs' = Write(fs, procs[p].out, Bytes(procs[p].fn, p))
  /\ wlog' = wlog
  /\ OnlyFrame(p, [procs[p] EXCEPT !.at = "digest", !.wrote = @ \cup {procs[p].out}])

\* scan_path of write_sidecar_from_scan, line 145: a file that loads as a
\* mesh is a model, anything else, a missing file included, is binary
OpScans(p) ==
  /\ procs[p].at = "scan"
  /\ UNCHANGED <<fs, wlog>>
  /\ OnlyFrame(p, [procs[p] EXCEPT
                     !.at = "digest",
                     !.detected = IF procs[p].out \in DOMAIN fs
                                     /\ fs[procs[p].out].kind # "convert_image"
                                  THEN "model" ELSE "binary"])

\* variant of line 121 / 182 that takes a missing file for an empty one
OpHashesOutputToleratesMissing(p) ==
  /\ procs[p].at = "digest"
  /\ UNCHANGED <<fs, wlog>>
  /\ OnlyFrame(p, [procs[p] EXCEPT
                     !.at = "size",
                     !.file_sha = IF procs[p].out \in DOMAIN fs
                                  THEN Sha256File(fs, procs[p].out)
                                  ELSE [sha256_of |-> Bytes("empty", 0)]])

\* file_sha = sha256_file(out); manifest.py line 121 / 182
OpHashesOutput(p) ==
  /\ procs[p].at = "digest"
  /\ UNCHANGED <<fs, wlog>>
  /\ OnlyFrame(p, IF procs[p].out \in DOMAIN fs
                  THEN [procs[p] EXCEPT !.at = "size",
                                        !.file_sha = Sha256File(fs, procs[p].out)]
                  ELSE [procs[p] EXCEPT !.at = "failed",
                                        !.error = FileNotFound(procs[p].out)])

\* file_size = out.stat().st_size; manifest.py line 122 / 183
OpStatsOutput(p) ==
  /\ procs[p].at = "size"
  /\ UNCHANGED <<fs, wlog>>
  /\ OnlyFrame(p, IF procs[p].out \in DOMAIN fs
                  THEN [procs[p] EXCEPT !.at = "build",
                                        !.file_size = FileSize(fs, procs[p].out)]
                  ELSE [procs[p] EXCEPT !.at = "failed",
                                        !.error = FileNotFound(procs[p].out)])

\* the AMSManifest is constructed and returned; manifest.py lines 123-163 / 184-215.
\* sha256_file(source_input_path) of line 140 / 201 is called whenever a
\* path was passed, and raises when the file is missing
OpBuildsRecord(p) ==
  /\ procs[p].at = "build"
  /\ UNCHANGED <<fs, wlog>>
  /\ OnlyFrame(p, IF procs[p].inp # NoPath /\ procs[p].inp \notin DOMAIN fs
                  THEN [procs[p] EXCEPT !.at = "failed",
                                        !.error = FileNotFound(procs[p].inp)]
                  ELSE [procs[p] EXCEPT
                          !.at = CASE procs[p].fn = "write_sidecar_from_scan" -> "audit"
                                   [] procs[p].fn = "create_for_file" -> "done"
                                   [] OTHER -> "json",
                          !.manifest = AMSManifest(JobOf(procs[p]), procs[p].file_sha,
                                                   procs[p].file_size,
                                                   InputSha256(JobOf(procs[p]), fs))])

\* setattr(manifest, "audit", data); scanner.py lines 167-171
OpAttachesAudit(p) ==
  /\ procs[p].at = "audit"
  /\ UNCHANGED <<fs, wlog>>
  /\ OnlyFrame(p, [procs[p] EXCEPT !.at = "json", !.audit = @ + 1,
                                   !.manifest = [@ EXCEPT !.audit =
                                                  [kind |-> "file",
                                                   detected_type |-> procs[p].detected]]])

\* variant of write_sidecars that stamps the record after the JSON sidecar
OpWritesJsonThenStamps(p) ==
  /\ procs[p].at = "json"
  /\ fs' = Write(fs, SidecarPaths(procs[p].out)[1], JsonSidecar(procs[p].manifest))
  /\ wlog' = wlog
  /\ OnlyFrame(p, [procs[p] EXCEPT !.at = "yaml",
                                   !.manifest = [@ EXCEPT !.audit = [kind |-> "written"]],
                                   !.wrote = @ \cup {SidecarPaths(procs[p].out)[1]}])

\* write_sidecars, lines 220-221
OpWritesJson(p) ==
  /\ procs[p].at = "json"
  /\ fs' = Write(fs, SidecarPaths(procs[p].out)[1], JsonSidecar(procs[p].manifest))
  /\ wlog' = wlog
  /\ OnlyFrame(p, [procs[p] EXCEPT !.at = "yaml",
                                   !.wrote = @ \cup {SidecarPaths(procs[p].out)[1]}])

\* write_sidecars, lines 222-224, and the return of the operation
OpWritesYaml(p) ==
  /\ procs[p].at = "yaml"
  /\ fs' = Write(fs, SidecarPaths(procs[p].out)[2], YamlSidecar(procs[p].manifest))
  /\ wlog' = wlog
  /\ OnlyFrame(p, [procs[p] EXCEPT !.at = "done",
                                   !.wrote = @ \cup {SidecarPaths(procs[p].out)[2]}])

\* another program removes the artifact from storage
OtherRemovesFile ==
  /\ Len(wlog) < MaxRemovals
  /\ TankPath \in DOMAIN fs
  /\ fs' = [q \in DOMAIN fs \ {TankPath} |-> fs[q]]
  /\ wlog' = Append(wlog, [step |-> -1, path |-> TankPath])
  /\ UNCHANGED <<registry, procs, doc, stored, dirs, pc, idx, profile, results, call, raised,
                 invoked, thrown, snap>>

StoreNext ==
  \/ \E p \in Callers :
       \/ OpWritesArtifact(p)
       \/ OpScans(p)
       \/ OpHashesOutput(p)
       \/ OpStatsOutput(p)
       \/ OpBuildsRecord(p)
       \/ OpAttachesAudit(p)
       \/ OpWritesJson(p)
       \/ OpWritesYaml(p)
  \/ OtherRemovesFile

StoreSpec == StoreInit /\ [][StoreNext]_vars

\* C19: in every record built by create_for_mesh or create_for_file the
\* digest and the size of the output describe the same bytes: they are never
\* those of two different versions of the file.
C19_DigestAndSizeOfSameContent ==
  \A p \in Callers :
    procs[p].manifest # Null =>
      procs[p].manifest.output.file_sha256.sha256_of
        = procs[p].manifest.output.file_size.size_of

\* the two sidecar paths of the artifact
Sidecars(path) == {SidecarPaths(path)[1], SidecarPaths(path)[2]}

\* C20: when create_for_mesh or create_for_file looks for an output path that
\* is not on storage, the operation it belongs to (create_tank_glb, a
\* converter or write_sidecar_from_scan) fails with the file-not-found error,
\* no record is returned, storage is left as it is, and the failed operation
\* writes no sidecar, then or later.
C20_MissingOutputFailsWithoutSidecar ==
  /\ [](\A p \in Callers :
          procs[p].at = "failed" =>
            /\ procs[p].error \in {FileNotFound(procs[p].out), FileNotFound(procs[p].inp)}
            /\ procs[p].manifest = Null
            /\ procs[p].wrote \cap Sidecars(procs[p].out) = {})
  /\ [][\A p \in Callers :
          /\ (/\ procs[p].at \in {"digest", "size"}
              /\ procs'[p] # procs[p]
              /\ procs[p].out \notin DOMAIN fs)
             => /\ procs'[p].at = "failed"
                /\ procs'[p].error = FileNotFound(procs[p].out)
                /\ fs' = fs
          /\ (procs[p].at = "failed" => procs'[p] = procs[p])]_vars

\* write_sidecar_from_scan found no file, and create_tank_glb lost its
\* artifact before the manifest was built; no sidecar is on storage
C20_Witness ==
  /\ procs[1].fn = "create_tank_glb"
  /\ procs[1].at = "failed"
  /\ procs[2].fn = "write_sidecar_from_scan"
  /\ procs[2].at = "failed"
  /\ Sidecars(TankPath) \cap DOMAIN fs = {}

\* C21: the input digest is computed only when an input path was passed and
\* the file exists: a builder given the path of a missing input still returns
\* a record (it never fails over the input), with input_sha256 null; and a
\* record built without an input path has input_path and input_sha256 null.
C21_InputDigestOnlyIfInputExists ==
  \A p \in Callers :
    /\ (procs[p].at = "failed" /\ procs[p].inp # NoPath =>
          procs[p].error # FileNotFound(procs[p].inp))
    /\ (procs[p].manifest # Null /\ procs[p].inp = NoPath =>
          /\ procs[p].manifest.source.input_path = NoPath
          /\ procs[p].manifest.source.input_sha256 = [sha256_of |-> Null])
    /\ (procs[p].manifest # Null /\ procs[p].inp # NoPath /\ procs[p].inp \notin DOMAIN fs =>
          procs[p].manifest.source.input_sha256 = [sha256_of |-> Null])

(***************************************************************************)
(* The record builders called in sequence by one process: create_for_mesh  *)
(* and create_for_file with the identifiers they draw and the geometry     *)
(* descriptor they compute.  The interpreter either provides uuid.uuid7 or *)
(* it does not, and _uuid7_str then falls back to uuid.uuid4.              *)
(***************************************************************************)

\* records built by one process
MaxBuilds == 2

\* readings of the millisecond clock
MaxClock == 1

\* a 128-bit identifier by its version and its bits in string order
Uuid(version, hi, lo) == [version |-> version, hi |-> hi, lo |-> lo]

\* variant of uuid.uuid7 that takes the clock reading as it comes
Uuid7FromClockOnly(gen, now, fresh) ==
  [id |-> Uuid(7, now, fresh),
   gen |-> [gen EXCEPT !.last_timestamp = now, !.counter = fresh]]

\* uuid.uuid7(): the timestamp leads; when the clock has not advanced past
\* the last timestamp used, that timestamp is kept and the counter is
\* incremented, else the counter is drawn afresh
Uuid7(gen, now, fresh) ==
  IF now > gen.last_timestamp
  THEN [id |-> Uuid(7, now, fresh),
        gen |-> [gen EXCEPT !.last_timestamp = now, !.counter = fresh]]
  ELSE [id |-> Uuid(7, gen.last_timestamp, gen.counter + 1),
        gen |-> [gen EXCEPT !.counter = gen.counter + 1]]

\* uuid.uuid4(): random bits, taken as never repeating
Uuid4(gen, fresh) ==
  [id |-> Uuid(4, fresh, 0), gen |-> [gen EXCEPT !.drawn = @ \cup {fresh}]]

\* the draws open to one generator call: clock reading and random bits
Draws(gen) ==
  IF gen.has_uuid7
  THEN {[now |-> t, fresh |-> r] : t \in 0 .. MaxClock, r \in 0 .. 1}
  ELSE {[now |-> 0, fresh |-> r] : r \in (1 .. (2 * MaxBuilds)) \ gen.drawn}

\* _uuid7_str(): uuid.uuid7() where the interpreter has it, else uuid.uuid4()
Uuid7Str(gen, draw) ==
  IF gen.has_uuid7 THEN Uuid7(gen, draw.now, draw.fresh) ELSE Uuid4(gen, draw.fresh)

\* the bounding boxes a caller passes, in millionths
Boxes == {[bbox_min |-> <<-500000, -500000, -1500000>>,
           bbox_max |-> <<500000, 500000, 1500000>>],
          [bbox_min |-> <<0, 0, 0>>, bbox_max |-> <<1000000, 2000000, 3000000>>],
          [bbox_min |-> <<250000, 0, 0>>, bbox_max |-> <<250000, 0, -1000000>>]}

\* variant of the descriptor that names the unit passed by the caller
GeometryInfoInCallerUnit(bbox_min, bbox_max, unit) ==
  [bbox_min |-> bbox_min, bbox_max |-> bbox_max,
   extents |-> [i \in 1 .. 3 |-> bbox_max[i] - bbox_min[i]],
   units |-> unit]

\* GeometryInfo(bbox_min, bbox_max, extents, units="m") as create_for_mesh fills it
GeometryInfo(bbox_min, bbox_max, unit) ==
  [bbox_min |-> bbox_min, bbox_max |-> bbox_max,
   extents |-> [i \in 1 .. 3 |-> bbox_max[i] - bbox_min[i]],
   units |-> "m"]

\* the profile id and unit string a caller passes
ScaleArguments == {[profile_id |-> "normal_m", unit |-> "m"],
                   [profile_id |-> "small_mm", unit |-> "mm"]}

\* the job a direct call of a builder describes
BuilderJob(mesh, scale) ==
  [out |-> TankPath, inp |-> NoPath, mesh |-> mesh,
   action |-> IF mesh THEN "create_capsule" ELSE "import",
   source_type |-> IF mesh THEN "generated" ELSE "converted",
   scale_profile_id |-> scale.profile_id, unit |-> scale.unit,
   params |-> <<>>]

\* the fields of the record that the builders set beside those read from storage
Identified(manifest, ams_id, seed_uuid, geometry) ==
  [ams_id |-> ams_id, seed_uuid |-> seed_uuid, geometry |-> geometry,
   scale |-> manifest.scale, source |-> manifest.source, output |-> manifest.output,
   conversion |-> manifest.conversion, audit |-> manifest.audit]

\* one process, its generator state, an artifact on storage, no record yet
BuilderInit ==
  /\ NoRun
  /\ fs = [q \in {TankPath} |-> Bytes("create_tank_glb", 1)]
  /\ registry = ALL_PROFILES
  /\ stored = Unset
  /\ profile = NoProfile
  /\ invoked = <<>>
  /\ \E b \in BOOLEAN :
       procs = [has_uuid7 |-> b, last_timestamp |-> 0, counter |-> 0, drawn |-> {}]

\* create_for_mesh(output_path, bbox_min, bbox_max, scale_profile_id, unit, ...)
CallCreateForMesh ==
  /\ Len(invoked) < MaxBuilds
  /\ \E box \in Boxes, scale \in ScaleArguments :
       \E d1 \in Draws(procs) :
         LET first == Uuid7Str(procs, d1) IN
           \E d2 \in Draws(first.gen) :
             LET second == Uuid7Str(first.gen, d2) IN
               /\ invoked' = Append(invoked,
                    Identified(Manifest(BuilderJob(TRUE, scale), fs), first.id, second.id,
                               GeometryInfo(box.bbox_min, box.bbox_max, scale.unit)))
               /\ procs' = second.gen
  /\ UNCHANGED <<registry, doc, stored, fs, dirs, pc, idx, profile, results, call, raised,
                 thrown, wlog, snap>>

\* create_for_file(output_path, scale_profile_id, unit, ...)
CallCreateForFile ==
  /\ Len(invoked) < MaxBuilds
  /\ \E scale \in ScaleArguments :
       \E d1 \in Draws(procs) :
         LET first == Uuid7Str(procs, d1) IN
           \E d2 \in Draws(first.gen) :
             LET second == Uuid7Str(first.gen, d2) IN
               /\ invoked' = Append(invoked,
                    Identified(Manifest(BuilderJob(FALSE, scale), fs), first.id, second.id,
                               Null))
               /\ procs' = second.gen
  /\ UNCHANGED <<registry, doc, stored, fs, dirs, pc, idx, profile, results, call, raised,
                 thrown, wlog, snap>>

BuilderNext == CallCreateForMesh \/ CallCreateForFile

BuilderSpec == BuilderInit /\ [][BuilderNext]_vars

\* C22: every record built by create_for_mesh carries a geometry descriptor
\* whose extents are bbox_max - bbox_min in each of the three coordinates and
\* whose units are "m" whatever profile id and unit string were passed; every
\* record built by create_for_file has no geometry.
C22_GeometryOfMeshRecords ==
  \A n \in 1 .. Len(invoked) :
    IF invoked[n].conversion.action = "create_capsule"
    THEN /\ invoked[n].geometry # Null
         /\ \A i \in 1 .. 3 :
              invoked[n].geometry.extents[i] =
                invoked[n].geometry.bbox_max[i] - invoked[n].geometry.bbox_min[i]
         /\ invoked[n].geometry.units = "m"
    ELSE invoked[n].geometry = Null

\* a mesh record built with a unit other than meters, and a file record
C22_Witness ==
  /\ \E n \in 1 .. Len(invoked) :
       /\ invoked[n].geometry # Null
       /\ invoked[n].scale.unit = "mm"
       /\ invoked[n].geometry.extents = <<1000000, 1000000, 3000000>>
  /\ \E n \in 1 .. Len(invoked) : invoked[n].conversion.action = "import"


\* the order of the identifiers' strings
UuidLess(a, b) == a.hi < b.hi \/ (a.hi = b.hi /\ a.lo < b.lo)

\* the ams_ids of the records built so far are in strictly increasing order
AmsIdsTimeOrdered ==
  \A i, j \in 1 .. Len(invoked) : i < j => UuidLess(invoked[i].ams_id, invoked[j].ams_id)

\* ams_id and seed_uuid of one record differ, and no two records share an ams_id
AmsIdsDistinct ==
  /\ \A n \in 1 .. Len(invoked) : invoked[n].ams_id # invoked[n].seed_uuid
  /\ \A i, j \in 1 .. Len(invoked) : i # j => invoked[i].ams_id # invoked[j].ams_id

MaxWrites == 2

\* the records a caller passes to write_sidecars
SidecarRecords ==
  {AMSManifest(BuilderJob(mesh, scale), [sha256_of |-> Bytes("create_tank_glb", n)],
               [size_of |-> Bytes("create_tank_glb", n)], [sha256_of |-> Null]) :
     mesh \in BOOLEAN, scale \in ScaleArguments, n \in {1}}

\* json.load / yaml.safe_load of a sidecar's content
Decode(content) == content.doc

\* an artifact on storage, no sidecar, no call of write_sidecars yet
SidecarInit ==
  /\ pc = "idle"
  /\ doc = NoRecipe
  /\ dirs = {}
  /\ idx = 0
  /\ results = <<>>
  /\ raised = ""
  /\ thrown = <<>>
  /\ wlog = <<>>
  /\ snap = <<>>
  /\ procs = <<>>
  /\ registry = ALL_PROFILES
  /\ stored = Unset
  /\ profile = NoProfile
  /\ invoked = <<>>
  /\ call = NoCall
  /\ fs = [q \in {TankPath} |-> Bytes("create_tank_glb", 1)]

\* write_sidecars(manifest, output_path, write_yaml) is entered; line 219
EnterWriteSidecars ==
  /\ call = NoCall
  /\ Len(invoked) < MaxWrites
  /\ \E m \in SidecarRecords, y \in BOOLEAN :
       call' = [phase |-> "json", manifest |-> m, write_yaml |-> y, out |-> TankPath,
                before |-> fs]
  /\ UNCHANGED <<fs, invoked>>
  /\ UNCHANGED <<registry, procs, doc, stored, dirs, pc, idx, profile, results, raised, thrown,
                 wlog, snap>>

\* variant of lines 220-221 that writes the JSON text to a staging file
WritePrimaryStaged ==
  /\ call.phase = "json"
  /\ fs' = Write(fs, WithSuffix(call.out, ".ams.json.tmp"), JsonSidecar(call.manifest))
  /\ call' = [call EXCEPT !.phase = "yaml"]
  /\ UNCHANGED invoked
  /\ UNCHANGED <<registry, procs, doc, stored, dirs, pc, idx, profile, results, raised, thrown,
                 wlog, snap>>

\* lines 220-221: the JSON sidecar is opened for writing and the record dumped
WritePrimary ==
  /\ call.phase = "json"
  /\ fs' = Write(fs, SidecarPaths(call.out)[1], JsonSidecar(call.manifest))
  /\ call' = [call EXCEPT !.phase = "yaml"]
  /\ UNCHANGED invoked
  /\ UNCHANGED <<registry, procs, doc, stored, dirs, pc, idx, profile, results, raised, thrown,
                 wlog, snap>>

\* lines 222-224 with write_yaml true: the YAML sidecar is written, the call returns
WriteSecondary ==
  /\ call.phase = "yaml"
  /\ call.write_yaml
  /\ fs' = Write(fs, SidecarPaths(call.out)[2], YamlSidecar(call.manifest))
  /\ invoked' = Append(invoked, [manifest |-> call.manifest, write_yaml |-> TRUE,
                                 completed |-> TRUE])
  /\ call' = NoCall
  /\ UNCHANGED <<registry, procs, doc, stored, dirs, pc, idx, profile, results, raised, thrown,
                 wlog, snap>>

\* line 222 with write_yaml false: the call returns after the JSON sidecar
ReturnWithoutSecondary ==
  /\ call.phase = "yaml"
  /\ ~call.write_yaml
  /\ invoked' = Append(invoked, [manifest |-> call.manifest, write_yaml |-> FALSE,
                                 completed |-> TRUE])
  /\ call' = NoCall
  /\ UNCHANGED fs
  /\ UNCHANGED <<registry, procs, doc, stored, dirs, pc, idx, profile, results, raised, thrown,
                 wlog, snap>>

\* line 223: open(yaml_path, 'w') raises, or the process dies before it
SecondaryWriteFails ==
  /\ call.phase = "yaml"
  /\ call.write_yaml
  /\ invoked' = Append(invoked, [manifest |-> call.manifest, write_yaml |-> TRUE,
                                 completed |-> FALSE])
  /\ call' = NoCall
  /\ UNCHANGED fs
  /\ UNCHANGED <<registry, procs, doc, stored, dirs, pc, idx, profile, results, raised, thrown,
                 wlog, snap>>

SidecarNext ==
  \/ EnterWriteSidecars
  \/ WritePrimary
  \/ WriteSecondary
  \/ ReturnWithoutSecondary
  \/ SecondaryWriteFails

SidecarSpec == SidecarInit /\ [][SidecarNext]_vars

\* every call of write_sidecars made so far has returned
AllCallsCompleted ==
  /\ call = NoCall
  /\ invoked # <<>>
  /\ \A n \in 1 .. Len(invoked) : invoked[n].completed

\* C24: after any sequence of completed write_sidecars calls on one artifact
\* path, with write_yaml true or false in any mix, the JSON sidecar exists and
\* decodes to the record passed to the last call, and the YAML sidecar,
\* whenever it exists, decodes to the same structure as the JSON sidecar.
C24_SidecarsAgreeAfterCompletedCalls ==
  AllCallsCompleted =>
    /\ SidecarPaths(TankPath)[1] \in DOMAIN fs
    /\ Decode(fs[SidecarPaths(TankPath)[1]]) = invoked[Len(invoked)].manifest
    /\ (SidecarPaths(TankPath)[2] \in DOMAIN fs =>
          Decode(fs[SidecarPaths(TankPath)[2]]) = Decode(fs[SidecarPaths(TankPath)[1]]))

\* C26: write_sidecars writes the JSON sidecar completely before it starts the
\* YAML sidecar and uses no staging file: the YAML sidecar is only ever
\* written by a call whose record is already in the JSON sidecar, and when the
\* call ends between the two writes the new JSON sidecar is on storage while
\* the YAML sidecar is absent or holds what it held before the call.
C26_PrimaryBeforeSecondary ==
  /\ [](DOMAIN fs \subseteq {TankPath} \cup Sidecars(TankPath))
  /\ [][/\ (fs' # fs /\ SidecarPaths(TankPath)[2] \in DOMAIN fs'
             /\ (SidecarPaths(TankPath)[2] \in DOMAIN fs =>
                   fs'[SidecarPaths(TankPath)[2]] # fs[SidecarPaths(TankPath)[2]])
             /\ call # NoCall)
            => /\ call.phase = "yaml"
               /\ SidecarPaths(TankPath)[1] \in DOMAIN fs
               /\ fs[SidecarPaths(TankPath)[1]] = JsonSidecar(call.manifest)
               /\ fs'[SidecarPaths(TankPath)[1]] = fs[SidecarPaths(TankPath)[1]]
        /\ (call # NoCall /\ call' = NoCall /\ ~invoked'[Len(invoked')].completed)
            => /\ SidecarPaths(TankPath)[1] \in DOMAIN fs'
               /\ fs'[SidecarPaths(TankPath)[1]] = JsonSidecar(call.manifest)
               /\ IF SidecarPaths(TankPath)[2] \in DOMAIN call.before
                  THEN /\ SidecarPaths(TankPath)[2] \in DOMAIN fs'
                       /\ fs'[SidecarPaths(TankPath)[2]]
                            = call.before[SidecarPaths(TankPath)[2]]
                  ELSE SidecarPaths(TankPath)[2] \notin DOMAIN fs']_vars

\* a call ended between its two writes after an earlier call had written both
\* sidecars for another record: the JSON sidecar is new, the YAML sidecar old
C26_Witness ==
  /\ call = NoCall
  /\ Len(invoked) = 2
  /\ invoked[1].completed /\ invoked[1].write_yaml
  /\ ~invoked[2].completed
  /\ invoked[1].manifest # invoked[2].manifest
  /\ Decode(fs[SidecarPaths(TankPath)[1]]) = invoked[2].manifest
  /\ Decode(fs[SidecarPaths(TankPath)[2]]) = invoked[1].manifest


\* the next step of caller p, whichever it is
OpStep(p) ==
  \/ OpWritesArtifact(p)
  \/ OpScans(p)
  \/ OpHashesOutput(p)
  \/ OpStatsOutput(p)
  \/ OpBuildsRecord(p)
  \/ OpAttachesAudit(p)
  \/ OpWritesJson(p)
  \/ OpWritesYaml(p)

\* C25: two runs working on the same output path take no lock: whatever the
\* other run is doing, a run that has not ended can take its next step, so
\* the artifact writes and sidecar writes of the two interleave freely (the
\* witness is the outcome: artifact and sidecars of different runs, and a
\* sidecar digest that is not the digest of the artifact on storage).
C25_RunsTakeNoLock ==
  \A p \in Callers : procs[p].at \notin {"done", "failed"} => ENABLED OpStep(p)

\* both runs have ended; the JSON sidecar is the record of one run, the YAML
\* sidecar the record of the other, the artifact was written by the run of
\* the YAML sidecar, and the digest in the JSON sidecar is that of other bytes
C25_Witness ==
  \E p, q \in Callers :
    /\ p # q
    /\ procs[p].at = "done" /\ procs[q].at = "done"
    /\ procs[p].fn # "write_sidecar_from_scan" /\ procs[q].fn # "write_sidecar_from_scan"
    /\ procs[p].manifest # procs[q].manifest
    /\ TankPath \in DOMAIN fs
    /\ fs[TankPath] = Bytes(procs[q].fn, q)
    /\ fs[SidecarPaths(TankPath)[1]] = JsonSidecar(procs[p].manifest)
    /\ fs[SidecarPaths(TankPath)[2]] = YamlSidecar(procs[q].manifest)
    /\ Decode(fs[SidecarPaths(TankPath)[1]]).output.file_sha256 # Sha256File(fs, TankPath)


\* runs over recipes whose steps are those of TerminationSteps and the two
\* conversions, so that every operation that produces an artifact succeeds
OperationSpec ==
  /\ InitWith({d \in Documents :
                 (d.top = "dict" /\ d.steps.t = "list") =>
                   \A i \in 1 .. Len(d.steps.l) :
                     d.steps.l[i] \in TerminationSteps \cup {ModelStep, ImageStep}},
              {DEFAULT_PROFILE_ID})
  /\ [][Next]_vars

\* C27: in create_tank_glb, convert_model_to_glb and convert_image the
\* artifact is written before its digest is read, the record is built once
\* per artifact (from no record, right after the artifact write of the same
\* step), the sidecars are written only once the record is built, and when
\* the artifact's sidecars are complete both hold that one record, which
\* names the artifact and carries the digest of the artifact on storage.
C27_ArtifactThenRecordThenSidecars ==
  [][/\ (call # NoCall /\ call' # NoCall /\ call'.manifest # call.manifest
          /\ call'.manifest # Null)
         => /\ call.phase = "manifest"
            /\ call.manifest = Null
            /\ wlog # <<>>
            /\ wlog[Len(wlog)] = [step |-> idx, path |-> Job.out]
            /\ call'.manifest.output.file_sha256 = Sha256File(fs, Job.out)
            /\ fs' = fs
     /\ (call # NoCall /\ call' # NoCall /\ fs' # fs /\ call.phase # "artifact")
         => /\ call.manifest # Null
            /\ call'.phase \in {"yaml", "artifact"}
            /\ fs'[Job.out] = fs[Job.out]
     /\ (call # NoCall /\ call' # NoCall /\ call.phase = "artifact" /\ fs' # fs)
         => /\ call.manifest = Null
            /\ call'.phase = "manifest"
     /\ (call # NoCall /\ call' # NoCall /\ call.phase = "yaml" /\ call'.phase = "artifact")
         => /\ Decode(fs'[SidecarPaths(Job.out)[1]]) = call.manifest
            /\ Decode(fs'[SidecarPaths(Job.out)[2]]) = call.manifest
            /\ call.manifest.output.file_path = Job.out
            /\ call.manifest.output.file_sha256 = Sha256File(fs', Job.out)
            /\ Len(SelectSeq(wlog', LAMBDA w : w.step = idx /\ w.path = Job.out)) = 1]_vars

\* a conversion has returned: its artifact and both sidecars are on storage
C27_Witness ==
  /\ pc = "loop"
  /\ results # <<>>
  /\ results[Len(results)].ok
  /\ results[Len(results)].action = "convert_image"
  /\ Sidecars(ImagePath) \subseteq DOMAIN fs
  /\ Decode(fs[SidecarPaths(ImagePath)[1]]).output.file_sha256 = Sha256File(fs, ImagePath)


\* C28: a record is not changed once write_sidecars has persisted it: the
\* only change a caller makes to a built record is attaching the audit
\* payload, which write_sidecar_from_scan does at most once per record, to a
\* record without audit, before either sidecar of the call is written; every
\* other field stays as built and the sidecars hold the record as it ends.
C28_RecordOnlyAuditedBeforePersisted ==
  /\ [](\A p \in Callers : procs[p].audit <= 1)
  /\ [][\A p \in Callers, s \in Sidecars(TankPath) :
          (s \in procs'[p].wrote \ procs[p].wrote)
            => /\ Decode(fs'[s]) = procs[p].manifest
               /\ procs'[p].manifest = procs[p].manifest]_vars
  /\ [][\A p \in Callers :
          (procs[p].manifest # Null /\ procs'[p].manifest # procs[p].manifest)
            => /\ procs[p].fn = "write_sidecar_from_scan"
               /\ procs[p].at = "audit"
               /\ procs[p].audit = 0
               /\ procs[p].manifest.audit = Null
               /\ procs[p].wrote = {}
               /\ procs'[p].manifest = [procs[p].manifest EXCEPT !.audit = procs'[p].manifest.audit]
               /\ procs'[p].manifest.audit # Null]_vars

\* write_sidecar_from_scan has returned and the record it persisted carries
\* the audit payload
C28_Witness ==
  \E p \in Callers :
    /\ procs[p].fn = "write_sidecar_from_scan"
    /\ procs[p].at = "done"
    /\ procs[p].audit = 1
    /\ procs[p].manifest.audit # Null
    /\ fs[SidecarPaths(TankPath)[1]] = JsonSidecar(procs[p].manifest)


\* C29: the manifest written for a tank that a recipe step created, by
\* create_tank or as a variant of create_tank_family, records in
\* scale.profile_id the unit profile that the run resolved for the recipe.
C29_TankManifestRecordsRunProfile ==
  \A path \in DOMAIN fs :
    (fs[path] # SourceBytes /\ fs[path].kind \in {"json", "yaml"}
       /\ Decode(fs[path]) # Null
       /\ Decode(fs[path]).conversion.action = "create_tank")
      => Decode(fs[path]).scale.profile_id = profile.id


(***************************************************************************)
(* run_recipe_action: the window starts a thread whose worker runs the     *)
(* recipe and emits a signal; the slots connected to the signals run on    *)
(* the window's thread in the order they were queued.                      *)
(***************************************************************************)

\* the window after thread.start(): _recipe_thread is set, the thread runs,
\* the worker is about to enter run_recipe_file, no signal was emitted
WorkerInit ==
  /\ RunEntered(TerminationDocuments, {DEFAULT_PROFILE_ID})
  /\ procs = [recipe_thread |-> "set", thread |-> "running", emitted |-> <<>>,
              pending |-> <<>>, status |-> "Running recipe"]

\* workers.py line 56: run_recipe_file returned, finished is emitted with the
\* results; its slots, connected on lines 672 and 674, are queued in order
WorkerEmitsFinished ==
  /\ pc = "done"
  /\ procs.emitted = <<>>
  /\ procs' = [procs EXCEPT
                 !.emitted = Append(@, [signal |-> "finished", payload |-> results]),
                 !.pending = @ \o <<"on_finished", "thread.quit">>]
  /\ UNCHANGED <<registry, doc, stored, fs, dirs, pc, idx, profile, results, call, raised,
                 invoked, thrown, wlog, snap>>

\* workers.py lines 57-58: run_recipe_file raised, error is emitted with the
\* message; its only slot, connected on line 673, is queued
WorkerEmitsError ==
  /\ pc = "raised"
  /\ procs.emitted = <<>>
  /\ procs' = [procs EXCEPT
                 !.emitted = Append(@, [signal |-> "error", payload |-> raised]),
                 !.pending = @ \o <<"on_error">>]
  /\ UNCHANGED <<registry, doc, stored, fs, dirs, pc, idx, profile, results, call, raised,
                 invoked, thrown, wlog, snap>>

\* on_finished, modding_suite.py lines 648-665
OnFinished ==
  /\ procs.pending # <<>>
  /\ Head(procs.pending) = "on_finished"
  /\ procs' = [procs EXCEPT !.pending = Tail(@), !.status = "Recipe complete"]
  /\ UNCHANGED <<registry, doc, stored, fs, dirs, pc, idx, profile, results, call, raised,
                 invoked, thrown, wlog, snap>>

\* on_error, modding_suite.py lines 667-669
OnError ==
  /\ procs.pending # <<>>
  /\ Head(procs.pending) = "on_error"
  /\ procs' = [procs EXCEPT !.pending = Tail(@), !.status = "Recipe error"]
  /\ UNCHANGED <<registry, doc, stored, fs, dirs, pc, idx, profile, results, call, raised,
                 invoked, thrown, wlog, snap>>

\* thread.quit, connected to worker.finished on line 672: the thread's event
\* loop ends and the thread emits its own finished signal
ThreadQuit ==
  /\ procs.pending # <<>>
  /\ Head(procs.pending) = "thread.quit"
  /\ procs' = [procs EXCEPT !.pending = Tail(@) \o <<"reset">>, !.thread = "finished"]
  /\ UNCHANGED <<registry, doc, stored, fs, dirs, pc, idx, profile, results, call, raised,
                 invoked, thrown, wlog, snap>>

\* the lambda of line 674: setattr(self, "_recipe_thread", None)
ResetRecipeThread ==
  /\ procs.pending # <<>>
  /\ Head(procs.pending) = "reset"
  /\ procs' = [procs EXCEPT !.pending = Tail(@), !.recipe_thread = "none"]
  /\ UNCHANGED <<registry, doc, stored, fs, dirs, pc, idx, profile, results, call, raised,
                 invoked, thrown, wlog, snap>>

WorkerNext ==
  \/ Next
  \/ WorkerEmitsFinished
  \/ WorkerEmitsError
  \/ OnFinished
  \/ OnError
  \/ ThreadQuit
  \/ ResetRecipeThread

\* the worker thread runs and the window's event loop delivers queued calls
WorkerSpec == WorkerInit /\ [][WorkerNext]_vars /\ WF_vars(WorkerNext)

\* C30: each RecipeWorker.run emits exactly one of finished (with the result
\* list) and error (with the message), never both and never neither, and in
\* both cases the thread eventually quits and _recipe_thread is reset to None.
C30_OneSignalThenThreadQuits ==
  /\ [](Len(procs.emitted) <= 1)
  /\ <>(Len(procs.emitted) = 1)
  /\ [](\A n \in 1 .. Len(procs.emitted) :
          \/ procs.emitted[n] = [signal |-> "finished", payload |-> results] /\ pc = "done"
          \/ procs.emitted[n] = [signal |-> "error", payload |-> raised] /\ pc = "raised")
  /\ <>(procs.thread = "finished" /\ procs.recipe_thread = "none")

====
